---- MODULE Spec2Model ----
(***************************************************************************)
(* LeetTracker: daily results, streaks and the sync orchestrator.          *)
(*                                                                         *)
(* Time is counted in ticks of eight hours, so a calendar day is DayLen    *)
(* ticks and Pacific standard time is one tick behind UTC.  A calendar     *)
(* date is the number of the day; the JavaScript date arithmetic of        *)
(* streaks.ts (new Date(d), setDate(getDate() +- 1), toISOString) is the   *)
(* day number +- 1, which is what it computes when the server process runs *)
(* in UTC.  A nullable column is NULL or Some(v).                          *)
(***************************************************************************)
EXTENDS Integers, Sequences, FiniteSets, Bags, TLC

VARIABLES
    now,            \* the wall clock, in ticks (DateTime.now())
    source,         \* LeetCode: username -> accepted submissions, newest first
    users,          \* table users
    nextUserId,     \* how many user ids gen_random_uuid() has handed out, plus one
    rooms,          \* table rooms
    daily_results,  \* table daily_results, a bag of rows
    submissions,    \* table submissions, a bag of rows
    sync,           \* invocations of GET /api/sync
    reg,            \* invocations of POST /api/users
    backfill,       \* invocations of GET /api/backfill
    streakView,     \* the last value returned by a read of the streak library
    statusView,     \* the last outcome of checkTodayStatus called on its own
    streaks,        \* the call of getStreaks: its two reads and the pair it returns
    upsert,         \* the call of upsertTodayResult made on its own, and the calls so far
    creating,       \* invocations of POST /api/rooms
    pinView,        \* the last answer of PATCH /api/rooms (verify PIN)
    millis,         \* the wall clock's milliseconds past the tick
    countdown       \* the last two values returned by getSecondsUntilMidnight

vars == <<now, source, users, nextUserId, rooms, daily_results, submissions,
          sync, reg, backfill, streakView, statusView, streaks, upsert, creating, pinView,
          millis, countdown>>

envVars == <<now, source>>
storeVars == <<users, nextUserId, rooms, daily_results, submissions>>
viewVars == <<streakView, statusView, streaks, upsert>>
roomVars == <<creating, pinView>>
clockVars == <<millis, countdown>>

-----------------------------------------------------------------------------
(* Bounds of the model *)

MaxTicks == 1       \* ticks the clock advances
MaxSubs == 1        \* accepted submissions made while the system runs
MaxSyncs == 2       \* sync invocations
MaxRegs == 2        \* registration requests
MaxBackfills == 1   \* bulk backfill requests
MaxInFlight == 2    \* requests served at a time
WindowDays == 2     \* days of the backfill window (30 in the code)
MaxDate == 3        \* latest date of a stored history given to the streak functions
MaxList == 3        \* length of a submission list given to checkTodayStatus
MaxCreates == 2     \* room creation requests
MaxDraws == 2       \* codes the random generator can give
MaxCalls == 3       \* calls of upsertTodayResult made on its own
MaxPin == 2         \* length of a PIN
ClockDays == 1      \* days the clock runs under the countdown

-----------------------------------------------------------------------------
(* Values *)

NULL == <<>>
Some(v) == <<v>>

DayLen == 3

PACIFIC_TZ == "America/Los_Angeles"
DEFAULT_TIMEZONE == PACIFIC_TZ
COMMON_TIMEZONES == {PACIFIC_TZ, "UTC"}

Usernames == {"alice", "bob"}
Problems == {"two-sum", "lru-cache"}
TitleOf(slug) == IF slug = "two-sum" THEN "Two Sum" ELSE "LRU Cache"

\* An accepted submission as the source lists it.
Submission(id, slug, t) == [id |-> id, title |-> TitleOf(slug), titleSlug |-> slug, timestamp |-> t]

Min(S) == CHOOSE x \in S : \A y \in S : x <= y
Max(S) == CHOOSE x \in S : \A y \in S : x >= y

-----------------------------------------------------------------------------
(* Timezone resolver (luxon) *)

\* The UTC offset of zone tz at instant t, in ticks.
UtcOffset(tz, t) == IF tz = PACIFIC_TZ THEN -1 ELSE 0

\* DateTime.fromSeconds(t, {zone: tz}).toISODate()
toISODate(t, tz) == (t + UtcOffset(tz, t)) \div DayLen

getDateForTimezone(tz) == toISODate(now, tz)

isTodayInTimezone(timestamp, tz) == toISODate(timestamp, tz) = getDateForTimezone(tz)

\* Date d moved by n days: new Date(d); setDate(getDate() + n); toISOString().split('T')[0]
AddDays(date, n) == date + n

\* The clock's units: MillisPerSecond of them make a second, SecondsPerTick seconds a tick.
MillisPerSecond == 2
SecondsPerTick == 2
TickLen == SecondsPerTick * MillisPerSecond
SecondsPerDay == DayLen * SecondsPerTick

\* DateTime.now().setZone(tz), as the milliseconds of its wall time.
getNowForTimezone(tz) == (now + UtcOffset(tz, now)) * TickLen + millis

\* dt.plus({days: 1}).startOf('day')
NextMidnight(wall) == (wall \div (DayLen * TickLen) + 1) * (DayLen * TickLen)

\* A mutant of Floor: Math.ceil.
Ceil(diff, unit) == (diff + unit - 1) \div unit

\* Math.floor(diff / unit)
Floor(diff, unit) == diff \div unit

\* getSecondsUntilMidnight(tz), as a function
SecondsUntilMidnight(tz) ==
    LET wall == getNowForTimezone(tz)
        midnight == NextMidnight(wall)
    IN  Floor(midnight - wall, MillisPerSecond)

NoCountdown == [tz |-> NULL, at |-> 0, date |-> 0, value |-> 0, before |-> NULL]

\* A call of getSecondsUntilMidnight(tz); the caller keeps the call before it.
getSecondsUntilMidnight(tz) ==
    /\ countdown' = [tz |-> Some(tz), at |-> now * TickLen + millis,
                     date |-> getDateForTimezone(tz), value |-> SecondsUntilMidnight(tz),
                     before |-> IF countdown.tz = NULL THEN NULL
                                ELSE Some([countdown EXCEPT !.before = NULL])]
    /\ UNCHANGED <<envVars, storeVars, sync, reg, backfill, viewVars, roomVars, millis>>

\* A millisecond passes.
Millisecond ==
    /\ now * TickLen + millis < (DayLen * (WindowDays + ClockDays) + 1) * TickLen
    /\ millis' = (millis + 1) % TickLen
    /\ now' = IF millis + 1 = TickLen THEN now + 1 ELSE now
    /\ UNCHANGED <<source, storeVars, sync, reg, backfill, viewVars, roomVars, countdown>>

-----------------------------------------------------------------------------
(* The store *)

DailyRow(userId, date, didSolve, solvedAt, title, slug, submissionId) ==
    [user_id |-> userId, date |-> date, did_solve |-> didSolve, solved_at |-> solvedAt,
     problem_title |-> title, problem_slug |-> slug, submission_id |-> submissionId]

\* A row as the sync writes it for a solve of problem slug at instant t.
SolvedRow(userId, date, t, slug, id) ==
    DailyRow(userId, date, TRUE, Some(t), Some(TitleOf(slug)), Some(slug), Some(id))

\* A mutant of MissedRow: the row of a day without a solve keeps a problem title.
MissedRowTitled(userId, date) ==
    DailyRow(userId, date, FALSE, NULL, Some(TitleOf("two-sum")), NULL, NULL)

MissedRow(userId, date) == DailyRow(userId, date, FALSE, NULL, NULL, NULL, NULL)

UserRow(id, username, displayName, roomId) ==
    [id |-> id, leetcode_username |-> username, display_name |-> displayName, room_id |-> roomId]

SubmissionRow(userId, date, title, slug, solvedAt, submissionId) ==
    [user_id |-> userId, date |-> date, problem_title |-> title, problem_slug |-> slug,
     solved_at |-> solvedAt, submission_id |-> submissionId]

\* The distinct rows of a table; CopiesIn counts the stored copies of a row.
Rows(table) == BagToSet(table)

\* A mutant of UpsertDailyResult: a plain INSERT into a table without the constraint.
InsertDailyResult(table, row) == table (+) SetToBag({row})

\* A mutant of UpsertDailyResult: ON CONFLICT (user_id, date) DO NOTHING.
UpsertKeepsStored(table, row) ==
    IF \E r \in BagToSet(table) : r.user_id = row.user_id /\ r.date = row.date
    THEN table
    ELSE table (+) SetToBag({row})

\* INSERT ... ON CONFLICT (user_id, date) DO UPDATE, one atomic statement.
UpsertDailyResult(table, row) ==
    LET keep == {r \in Rows(table) : ~(r.user_id = row.user_id /\ r.date = row.date)}
    IN  [r \in keep \cup {row} |-> IF r = row THEN 1 ELSE table[r]]

\* .eq('user_id', userId).eq('date', date).maybeSingle(): the row, or NULL.
SelectDailyResult(table, userId, date) ==
    LET hit == {r \in Rows(table) : r.user_id = userId /\ r.date = date}
    IN  IF Cardinality(hit) = 1 /\ CopiesIn(CHOOSE r \in hit : TRUE, table) = 1
        THEN Some(CHOOSE r \in hit : TRUE)
        ELSE NULL

\* .order('date', {ascending}) over a bag of rows.
RECURSIVE OrderByDate(_, _)
OrderByDate(table, ascending) ==
    IF Rows(table) = {} THEN <<>>
    ELSE LET first == CHOOSE r \in Rows(table) : \A q \in Rows(table) :
                          IF ascending THEN r.date <= q.date ELSE r.date >= q.date
         IN  <<first>> \o OrderByDate(table (-) SetToBag({first}), ascending)

\* The rows of table that satisfy Keep, as a bag.
Restrict(table, keep) == [r \in keep \cap Rows(table) |-> table[r]]

\* A mutant of Written: daily_results and submissions carry no foreign key.
WrittenUnreferenced(ok, userId) == ok

\* A write of a row of userId takes effect: the call succeeds, which needs the row's
\* user_id to reference a row of users (user_id UUID NOT NULL REFERENCES users(id)).
Written(ok, userId) == ok /\ \E u \in users : u.id = userId

\* ON DELETE CASCADE: the rows of table whose user is not among the remaining users go.
Cascade(table, remaining) ==
    Restrict(table, {r \in Rows(table) : \E u \in remaining : u.id = r.user_id})

-----------------------------------------------------------------------------
(* Streak engine *)

\* A mutant of DateGap: the walk never looks at the dates.
DateGapIgnored(date, currentDate) == FALSE

\* result.date !== currentDate: the row is not the one of the expected date.
DateGap(date, currentDate) == date # currentDate

RECURSIVE StreakWalk(_, _, _, _, _, _)
StreakWalk(results, i, today, solvedToday, currentDate, streak) ==
    IF i > Len(results) THEN streak
    ELSE LET result == results[i] IN
         IF ~solvedToday /\ result.date = today
         THEN StreakWalk(results, i + 1, today, solvedToday, currentDate, streak)
         ELSE IF DateGap(result.date, currentDate) THEN streak
         ELSE IF result.did_solve
              THEN StreakWalk(results, i + 1, today, solvedToday,
                              AddDays(result.date, -1), streak + 1)
              ELSE streak

\* A mutant of StreakStart: a miss recorded for today ends the streak.
StreakStartStrict(results, today) ==
    LET found == {i \in 1..Len(results) : results[i].date = today}
    IN  [solvedToday |-> found # {} /\ results[Min(found)].did_solve = TRUE,
         currentDate |-> IF found # {} THEN today ELSE AddDays(today, -1)]

\* Where the walk starts: today if today's row is solved, else yesterday.
StreakStart(results, today) ==
    LET found == {i \in 1..Len(results) : results[i].date = today}
        solvedToday == found # {} /\ results[Min(found)].did_solve = TRUE
    IN  [solvedToday |-> solvedToday,
         currentDate |-> IF solvedToday THEN today ELSE AddDays(today, -1)]

\* The body of calculateCurrentStreak after the query returned results.
CurrentStreakOf(results, today) ==
    IF Len(results) = 0 THEN 0
    ELSE LET s == StreakStart(results, today)
         IN  StreakWalk(results, 1, today, s.solvedToday, s.currentDate, 0)

\* A mutant of RunningStreak: every solved row extends the run, gap or not.
RunningStreakNoGap(currentStreak, lastDate, date) ==
    IF lastDate = NULL THEN 1 ELSE currentStreak + 1

\* The running counter after a solved row of the given date.
RunningStreak(currentStreak, lastDate, date) ==
    IF lastDate = NULL THEN 1
    ELSE IF date = AddDays(lastDate[1], 1) THEN currentStreak + 1
    ELSE 1

RECURSIVE LongestScan(_, _, _, _, _)
LongestScan(results, i, maxStreak, currentStreak, lastDate) ==
    IF i > Len(results) THEN maxStreak
    ELSE LET result == results[i] IN
         IF result.did_solve
         THEN LET cur == RunningStreak(currentStreak, lastDate, result.date)
              IN  LongestScan(results, i + 1, Max({maxStreak, cur}), cur, Some(result.date))
         ELSE LongestScan(results, i + 1, maxStreak, 0, Some(result.date))

\* The body of calculateLongestStreak after the query returned results.
LongestStreakOf(results) ==
    IF Len(results) = 0 THEN 0 ELSE LongestScan(results, 1, 0, 0, NULL)

\* A mutant of CurrentStreakQuery: the query without .lte('date', today).
CurrentStreakQueryAll(table, userId, today) ==
    OrderByDate(Restrict(table, {r \in Rows(table) : r.user_id = userId}), FALSE)

\* The query of calculateCurrentStreak.
CurrentStreakQuery(table, userId, today) ==
    OrderByDate(Restrict(table, {r \in Rows(table) : r.user_id = userId /\ r.date <= today}),
                FALSE)

\* The query of calculateLongestStreak.
LongestStreakQuery(table, userId) ==
    OrderByDate(Restrict(table, {r \in Rows(table) : r.user_id = userId}), TRUE)

NoView ==
    [fn |-> "none", userId |-> NULL, today |-> NULL, error |-> FALSE, value |-> 0,
     result |-> NULL]

\* A mutant of ReadOr: the error of the read is not looked at.
ReadUnchecked(error, data, default) == data

\* if (error) return default; otherwise what was made of the data.
ReadOr(error, data, default) == IF error THEN default ELSE data

\* calculateCurrentStreak(userId, timezone); a failed read returns 0.
calculateCurrentStreak(userId, timezone) ==
    \E error \in BOOLEAN :
        LET today == getDateForTimezone(timezone)
            results == CurrentStreakQuery(daily_results, userId, today)
        IN  /\ streakView' = [fn |-> "current", userId |-> Some(userId), today |-> Some(today),
                              error |-> error,
                              value |-> ReadOr(error, CurrentStreakOf(results, today), 0),
                              result |-> NULL]
            /\ UNCHANGED <<envVars, storeVars, sync, reg, backfill, statusView, streaks, upsert, roomVars, clockVars>>

\* calculateLongestStreak(userId); a failed read returns 0.
calculateLongestStreak(userId) ==
    \E error \in BOOLEAN :
        LET results == LongestStreakQuery(daily_results, userId)
        IN  /\ streakView' = [fn |-> "longest", userId |-> Some(userId), today |-> NULL,
                              error |-> error,
                              value |-> ReadOr(error, LongestStreakOf(results), 0),
                              result |-> NULL]
            /\ UNCHANGED <<envVars, storeVars, sync, reg, backfill, statusView, streaks, upsert, roomVars, clockVars>>

\* getTodayResult(userId, timezone): today's row, or null when there is none or the
\* read fails with an error other than PGRST116.
getTodayResult(userId, timezone) ==
    \E error \in BOOLEAN :
        LET today == getDateForTimezone(timezone)
            data == SelectDailyResult(daily_results, userId, today)
        IN  /\ streakView' = [fn |-> "today", userId |-> Some(userId), today |-> Some(today),
                              error |-> error, value |-> 0,
                              result |-> ReadOr(error, data, NULL)]
            /\ UNCHANGED <<envVars, storeVars, sync, reg, backfill, statusView, streaks, upsert, roomVars, clockVars>>

NoStreaks ==
    [pc |-> "idle", userId |-> NULL, today |-> NULL, current |-> NULL, longest |-> NULL]

\* getStreaks(userId, timezone): Promise.all starts both functions; each runs up to its
\* read, calculateCurrentStreak having taken today's date already.
GetStreaksCall(userId, timezone) ==
    /\ streaks.pc # "reading"
    /\ streaks' = [NoStreaks EXCEPT !.pc = "reading", !.userId = Some(userId),
                                    !.today = Some(getDateForTimezone(timezone))]
    /\ UNCHANGED <<envVars, storeVars, sync, reg, backfill, streakView, statusView, upsert, roomVars, clockVars>>

\* The read of calculateCurrentStreak completes; a failed read returns 0.
GetStreaksCurrent(error) ==
    /\ streaks.pc = "reading"
    /\ streaks.current = NULL
    /\  LET today == streaks.today[1]
            results == CurrentStreakQuery(daily_results, streaks.userId[1], today)
        IN  streaks' = [streaks EXCEPT
                !.current = Some(ReadOr(error, CurrentStreakOf(results, today), 0))]
    /\ UNCHANGED <<envVars, storeVars, sync, reg, backfill, streakView, statusView, upsert, roomVars, clockVars>>

\* The read of calculateLongestStreak completes; a failed read returns 0.
GetStreaksLongest(error) ==
    /\ streaks.pc = "reading"
    /\ streaks.longest = NULL
    /\  LET results == LongestStreakQuery(daily_results, streaks.userId[1])
        IN  streaks' = [streaks EXCEPT
                !.longest = Some(ReadOr(error, LongestStreakOf(results), 0))]
    /\ UNCHANGED <<envVars, storeVars, sync, reg, backfill, streakView, statusView, upsert, roomVars, clockVars>>

\* Promise.all resolved: return { current, longest }.
GetStreaksReturn ==
    /\ streaks.pc = "reading"
    /\ streaks.current # NULL
    /\ streaks.longest # NULL
    /\ streaks' = [streaks EXCEPT !.pc = "returned"]
    /\ UNCHANGED <<envVars, storeVars, sync, reg, backfill, streakView, statusView, upsert, roomVars, clockVars>>

\* The steps of getStreaks; errors holds the outcomes a read may have (TRUE: it fails).
getStreaksWhen(errors) ==
    \/ \E u \in users : GetStreaksCall(u.id, DEFAULT_TIMEZONE)
    \/ \E error \in errors : GetStreaksCurrent(error) \/ GetStreaksLongest(error)
    \/ GetStreaksReturn

-----------------------------------------------------------------------------
(* Submission source client and daily status evaluator *)

FetchLimit == 20

\* The instant t as an ISO string of zone tz: the wall time and the offset.
toISO(t, tz) == [wall |-> t + UtcOffset(tz, t), offset |-> UtcOffset(tz, t)]

\* The instant a TIMESTAMPTZ column stores for an ISO string.
TimestampTz(iso) == iso.wall - iso.offset

\* recentAcSubmissionList(username, limit: 20)
RecentAcSubmissionList(username) ==
    SubSeq(source[username], 1, Min({FetchLimit, Len(source[username])}))

NotDone == [isDone |-> FALSE, solveTime |-> NULL, problemTitle |-> NULL,
            problemSlug |-> NULL, submissionId |-> NULL]

\* The submissions of the list that happened today in zone tz, in the list's order.
TodaySubmissions(list, tz) ==
    SelectSeq(list, LAMBDA sub : isTodayInTimezone(sub.timestamp, tz))

\* A mutant of LatestToday: the last of today's submissions, not the first.
OldestToday(todaySubmissions) == todaySubmissions[Len(todaySubmissions)]

\* todaySubmissions[0]
LatestToday(todaySubmissions) == todaySubmissions[1]

\* The body of checkTodayStatus after the fetch returned list.
StatusOf(list, tz) ==
    IF Len(list) = 0 THEN NotDone
    ELSE LET todaySubmissions == TodaySubmissions(list, tz) IN
         IF Len(todaySubmissions) = 0 THEN NotDone
         ELSE LET latestToday == LatestToday(todaySubmissions) IN
              [isDone |-> TRUE,
               solveTime |-> Some(toISO(latestToday.timestamp, tz)),
               problemTitle |-> Some(latestToday.title),
               problemSlug |-> Some(latestToday.titleSlug),
               submissionId |-> Some(latestToday.id)]

\* A mutant of StatusOnFetchError: the earlier checkTodayStatus, which returns
\* "not done" when the fetch fails.
StatusOnFetchErrorCoerced == [threw |-> FALSE, status |-> NotDone]

\* checkTodayStatus when fetchLeetCodeSubmissions throws: the error is re-thrown.
StatusOnFetchError == [threw |-> TRUE, status |-> NotDone]

\* checkTodayStatus(username, tz), the fetch succeeding (ok) or not.
checkTodayStatus(username, tz, ok) ==
    IF ok THEN [threw |-> FALSE, status |-> StatusOf(RecentAcSubmissionList(username), tz)]
    ELSE StatusOnFetchError

NoStatusView == [username |-> NULL, timezone |-> NULL, fetched |-> NULL,
                 threw |-> FALSE, status |-> NotDone]

\* One call of checkTodayStatus from outside the sync (GET /api/test-leetcode).
CheckStatus(username, tz) ==
    \E ok \in BOOLEAN :
        LET r == checkTodayStatus(username, tz, ok)
        IN  /\ statusView' = [username |-> Some(username), timezone |-> Some(tz),
                              fetched |-> IF ok THEN Some(RecentAcSubmissionList(username))
                                          ELSE NULL,
                              threw |-> r.threw, status |-> r.status]
            /\ UNCHANGED <<envVars, storeVars, sync, reg, backfill, streakView, streaks, upsert, roomVars, clockVars>>

-----------------------------------------------------------------------------
(* Result store: upsertTodayResult and saveSubmissions *)

\* The row upsertTodayResult writes.
TodayRow(userId, today, status) ==
    DailyRow(userId, today, status.isDone,
             IF status.solveTime = NULL THEN NULL ELSE Some(TimestampTz(status.solveTime[1])),
             status.problemTitle, status.problemSlug, status.submissionId)

\* A mutant of GuardKeeps: upsertTodayResult without the guard (lib/streaks.ts).
GuardKeepsNothing(existing) == FALSE

\* existing?.did_solve === true: the guard keeps the stored row.
GuardKeeps(existing) == existing # NULL /\ existing[1].did_solve = TRUE

\* A mutant of UpsertSubmission: a plain INSERT into a table without the unique index.
InsertSubmission(table, row) == table (+) SetToBag({row})

\* INSERT ... ON CONFLICT (user_id, date, problem_slug) DO UPDATE of one row.
UpsertSubmission(table, row) ==
    LET keep == {r \in Rows(table) : ~(r.user_id = row.user_id /\ r.date = row.date
                                        /\ r.problem_slug = row.problem_slug)}
    IN  [r \in keep \cup {row} |-> IF r = row THEN 1 ELSE table[r]]

RECURSIVE UpsertSubmissions(_, _, _)
UpsertSubmissions(table, rows, i) ==
    IF i > Len(rows) THEN table
    ELSE UpsertSubmissions(UpsertSubmission(table, rows[i]), rows, i + 1)

\* The rows saveSubmissions builds for today.
SubmissionRows(userId, today, subs) ==
    [i \in 1..Len(subs) |->
        SubmissionRow(userId, today, subs[i].title, subs[i].titleSlug,
                      subs[i].timestamp, Some(subs[i].id))]

\* One upsert statement of several rows fails as a whole when two of its rows have
\* the same (user_id, date, problem_slug).
BatchConflicts(rows) ==
    \E i, j \in 1..Len(rows) : i # j /\ rows[i].problem_slug = rows[j].problem_slug

\* No call of upsertTodayResult is under way and none was made.
NoUpsert == [pc |-> "idle", userId |-> NULL, today |-> NULL, status |-> NotDone, calls |-> <<>>]

\* upsertTodayResult(userId, status.isDone, ..., timezone) is called: it takes today's
\* date, and goes to its guard when didSolve is false.
UpsertCall(userId, status, timezone) ==
    /\ upsert.pc = "idle"
    /\ Len(upsert.calls) < MaxCalls
    /\ upsert' = [pc |-> IF status.isDone THEN "write" ELSE "guard",
                  userId |-> Some(userId), today |-> Some(getDateForTimezone(timezone)),
                  status |-> status,
                  calls |-> Append(upsert.calls, [userId |-> userId, didSolve |-> status.isDone])]
    /\ UNCHANGED <<envVars, storeVars, sync, reg, backfill, streakView, statusView, streaks, roomVars, clockVars>>

\* The guard's read of today's row; a failed read leaves existing undefined.
UpsertGuard(ok) ==
    /\ upsert.pc = "guard"
    /\  LET existing == IF ok THEN SelectDailyResult(daily_results, upsert.userId[1],
                                                     upsert.today[1])
                        ELSE NULL
        IN  upsert' = [upsert EXCEPT !.pc = IF GuardKeeps(existing) THEN "idle" ELSE "write"]
    /\ UNCHANGED <<envVars, storeVars, sync, reg, backfill, streakView, statusView, streaks, roomVars, clockVars>>

\* The upsert of today's row; its error is thrown to the caller.
UpsertWrite(ok) ==
    /\ upsert.pc = "write"
    /\ daily_results' =
           IF Written(ok, upsert.userId[1])
           THEN UpsertDailyResult(daily_results,
                                  TodayRow(upsert.userId[1], upsert.today[1], upsert.status))
           ELSE daily_results
    /\ upsert' = [upsert EXCEPT !.pc = "idle"]
    /\ UNCHANGED <<envVars, users, nextUserId, rooms, submissions, sync, reg, backfill, streakView, statusView, streaks, roomVars, clockVars>>

\* The calls of upsertTodayResult one after the other, with the statuses checkTodayStatus
\* gives for a user without a submission today and with one; reads and writes hold the
\* outcomes the guard's read and the upsert may have.
upsertTodayResultWhen(reads, writes) ==
    \/ \E u \in users, slug \in Problems, done \in BOOLEAN :
           UpsertCall(u.id,
                      IF done THEN StatusOf(<<Submission(1, slug, now)>>, DEFAULT_TIMEZONE)
                      ELSE NotDone,
                      DEFAULT_TIMEZONE)
    \/ \E ok \in reads : UpsertGuard(ok)
    \/ \E ok \in writes : UpsertWrite(ok)

-----------------------------------------------------------------------------
(* Sync orchestrator: GET /api/sync *)

\* The requests being served.  Requests are numbered in order of arrival, and the
\* platform serves a bounded number of them at a time.
InFlight(procs) == {i \in DOMAIN procs : procs[i].pc \notin {"idle", "returned"}}

Arrives(procs, i) ==
    /\ procs[i].pc = "idle"
    /\ \A j \in DOMAIN procs : j < i => procs[j].pc # "idle"
    /\ Cardinality(InFlight(sync)) + Cardinality(InFlight(reg))
         + Cardinality(InFlight(backfill)) < MaxInFlight

IdleSync == [pc |-> "idle", roomId |-> NULL, users |-> {}, task |-> <<>>, response |-> NULL]

\* The handler answered: only its response remains.
SyncAnswer(status, results) ==
    [IdleSync EXCEPT !.pc = "returned",
                     !.response = Some([status |-> status, results |-> results])]

NewTask(tz) ==
    [pc |-> "check", timezone |-> tz, fetchFailed |-> FALSE, status |-> NULL,
     today |-> NULL, subs |-> <<>>, outcome |-> NULL]

Failure(message) ==
    [success |-> FALSE, isDone |-> NULL, problemTitle |-> NULL, totalSubmissions |-> NULL,
     error |-> Some(message)]

Success(status, total) ==
    [success |-> TRUE, isDone |-> Some(status.isDone), problemTitle |-> status.problemTitle,
     totalSubmissions |-> Some(total), error |-> NULL]

UserOf(inv, uid) == CHOOSE u \in inv.users : u.id = uid

\* A mutant of SyncUserCatch: no try/catch around the user's body, so the rejection
\* reaches Promise.all and the handler answers 500.
SyncUserRethrow(inv, uid, message) ==
    SyncAnswer(500, NULL)

\* A mutant of SyncUserCatch: the error is swallowed and the body goes on to the fetch
\* of today's submissions.
SyncUserCarryOn(inv, uid, message) ==
    [inv EXCEPT !.task[uid].pc = "subs"]

\* The catch of the user's body: the error becomes that user's outcome.
SyncUserCatch(inv, uid, message) ==
    [inv EXCEPT !.task[uid] =
        [NewTask(@.timezone) EXCEPT !.pc = "done", !.fetchFailed = inv.task[uid].fetchFailed,
                                    !.outcome = Some(Failure(message))]]

\* The user's body returned.
SyncUserDone(inv, uid, total) ==
    [inv EXCEPT !.task[uid] =
        [NewTask(@.timezone) EXCEPT !.pc = "done",
                                    !.outcome = Some(Success(inv.task[uid].status[1], total))]]

\* A mutant of SaveSubmissionsError: saveSubmissions throws its error.
SaveSubmissionsErrorThrown(inv, uid, total) == SyncUserCatch(inv, uid, "store")

\* saveSubmissions logs its error and returns ("Don't throw"): the body goes on.
SaveSubmissionsError(inv, uid, total) == SyncUserDone(inv, uid, total)

\* The users query: all users, or those of the room asked for.
\* A mutant of UsersQuery: the query is not narrowed to the room.
UsersQueryUnfiltered(table, roomId) == table

\* supabase.from('users').select('*'), with .eq('room_id', roomId) when a room is given.
UsersQuery(table, roomId) ==
    IF roomId # NULL THEN {u \in table : u.room_id = roomId} ELSE table

SyncUsers(i, roomId, ok) ==
    /\ Arrives(sync, i)
    /\  LET found == UsersQuery(users, roomId)
        IN  sync' = [sync EXCEPT ![i] =
                IF ~ok THEN SyncAnswer(500, NULL)
                ELSE IF found = {} THEN SyncAnswer(200, NULL)
                ELSE [@ EXCEPT !.pc = "rooms", !.roomId = roomId, !.users = found]]
    /\ UNCHANGED <<envVars, storeVars, reg, backfill, viewVars, roomVars, clockVars>>

\* The rooms query and the fan-out: every user's body starts with its room's timezone.
SyncRooms(i, ok) ==
    /\ sync[i].pc = "rooms"
    /\  LET roomIds == {u.room_id[1] : u \in {x \in sync[i].users : x.room_id # NULL}}
            found == IF ok THEN {r \in rooms : r.id \in roomIds} ELSE {}
            roomTimezone(id) ==
                IF \E r \in found : r.id = id
                THEN LET r == CHOOSE x \in found : x.id = id
                     IN  IF r.timezone # NULL THEN r.timezone[1] ELSE DEFAULT_TIMEZONE
                ELSE DEFAULT_TIMEZONE
            timezone(u) == IF u.room_id # NULL THEN roomTimezone(u.room_id[1])
                           ELSE DEFAULT_TIMEZONE
        IN  sync' = [sync EXCEPT ![i] =
                [@ EXCEPT !.pc = "fanout",
                          !.task = [uid \in {u.id : u \in sync[i].users} |->
                                       NewTask(timezone(UserOf(sync[i], uid)))]]]
    /\ UNCHANGED <<envVars, storeVars, reg, backfill, viewVars, roomVars, clockVars>>

Running(i, uid, pc) ==
    /\ sync[i].pc = "fanout"
    /\ uid \in DOMAIN sync[i].task
    /\ sync[i].task[uid].pc = pc

\* await checkTodayStatus(user.leetcode_username, timezone)
SyncCheck(i, uid, ok) ==
    /\ Running(i, uid, "check")
    /\  LET t == sync[i].task[uid]
            r == checkTodayStatus(UserOf(sync[i], uid).leetcode_username, t.timezone, ok)
            fetched == [sync[i] EXCEPT !.task[uid].fetchFailed = ~ok]
        IN  sync' = [sync EXCEPT ![i] =
                IF r.threw THEN SyncUserCatch(fetched, uid, "source")
                ELSE [fetched EXCEPT !.task[uid].status = Some(r.status),
                                    !.task[uid].pc = IF r.status.isDone THEN "write"
                                                     ELSE "guard"]]
    /\ UNCHANGED <<envVars, storeVars, reg, backfill, viewVars, roomVars, clockVars>>

\* upsertTodayResult with didSolve = false: the guard's read of today's row.  The
\* read's error is not looked at: a failed read leaves existing undefined.
SyncGuard(i, uid, ok) ==
    /\ Running(i, uid, "guard")
    /\  LET today == getDateForTimezone(sync[i].task[uid].timezone)
            existing == IF ok THEN SelectDailyResult(daily_results, uid, today) ELSE NULL
        IN  sync' = [sync EXCEPT ![i].task[uid] =
                IF GuardKeeps(existing) THEN [@ EXCEPT !.pc = "subs"]
                ELSE [@ EXCEPT !.pc = "write", !.today = Some(today)]]
    /\ UNCHANGED <<envVars, storeVars, reg, backfill, viewVars, roomVars, clockVars>>

\* upsertTodayResult: the upsert of today's row; its error is thrown.
SyncWrite(i, uid, ok) ==
    /\ Running(i, uid, "write")
    /\  LET t == sync[i].task[uid]
            today == IF t.today # NULL THEN t.today[1] ELSE getDateForTimezone(t.timezone)
        IN  IF Written(ok, uid)
            THEN /\ daily_results' = UpsertDailyResult(daily_results,
                                                       TodayRow(uid, today, t.status[1]))
                 /\ sync' = [sync EXCEPT ![i].task[uid] =
                                [@ EXCEPT !.pc = "subs", !.today = Some(today)]]
            ELSE /\ sync' = [sync EXCEPT ![i] = SyncUserCatch(@, uid, "store")]
                 /\ UNCHANGED daily_results
    /\ UNCHANGED <<envVars, users, nextUserId, rooms, submissions, reg, backfill, viewVars, roomVars, clockVars>>

\* await getAllTodaySubmissions(user.leetcode_username, timezone): [] when the fetch fails.
SyncSubs(i, uid, ok) ==
    /\ Running(i, uid, "subs")
    /\  LET t == sync[i].task[uid]
            all == IF ok THEN TodaySubmissions(
                                  RecentAcSubmissionList(UserOf(sync[i], uid).leetcode_username),
                                  t.timezone)
                   ELSE <<>>
        IN  sync' = [sync EXCEPT ![i] =
                IF Len(all) > 0 THEN [@ EXCEPT !.task[uid].pc = "save", !.task[uid].subs = all]
                ELSE SyncUserDone(@, uid, 0)]
    /\ UNCHANGED <<envVars, storeVars, reg, backfill, viewVars, roomVars, clockVars>>

\* await saveSubmissions(user.id, allSubmissions, timezone): its error is logged only.
SyncSave(i, uid, ok) ==
    /\ Running(i, uid, "save")
    /\  LET t == sync[i].task[uid]
            rows == SubmissionRows(uid, getDateForTimezone(t.timezone), t.subs)
        IN  /\ submissions' = IF Written(ok, uid) /\ ~BatchConflicts(rows)
                              THEN UpsertSubmissions(submissions, rows, 1)
                              ELSE submissions
            /\ sync' = [sync EXCEPT ![i] =
                   IF Written(ok, uid) /\ ~BatchConflicts(rows) THEN SyncUserDone(@, uid, Len(t.subs))
                   ELSE SaveSubmissionsError(@, uid, Len(t.subs))]
    /\ UNCHANGED <<envVars, users, nextUserId, rooms, daily_results, reg, backfill, viewVars, roomVars, clockVars>>

\* Promise.all resolved: the summary holds every user's outcome.
SyncReturn(i) ==
    /\ sync[i].pc = "fanout"
    /\ \A uid \in DOMAIN sync[i].task : sync[i].task[uid].pc = "done"
    /\ sync' = [sync EXCEPT ![i] =
            SyncAnswer(200, Some([uid \in DOMAIN sync[i].task |->
                                     sync[i].task[uid].outcome[1]]))]
    /\ UNCHANGED <<envVars, storeVars, reg, backfill, viewVars, roomVars, clockVars>>

\* The steps of the sync invocations; oks holds the outcomes a source or store call may
\* have (TRUE: it succeeds, FALSE: it fails).
SyncWhen(oks) ==
    \/ \E i \in 1..MaxSyncs, roomId \in {NULL} \cup {Some(r.id) : r \in rooms}, ok \in oks :
           SyncUsers(i, roomId, ok)
    \/ \E i \in 1..MaxSyncs, ok \in oks : SyncRooms(i, ok)
    \/ \E i \in 1..MaxSyncs : SyncReturn(i)
    \/ \E i \in 1..MaxSyncs, uid \in {u.id : u \in users}, ok \in oks :
           \/ SyncCheck(i, uid, ok)
           \/ SyncGuard(i, uid, ok)
           \/ SyncWrite(i, uid, ok)
           \/ SyncSubs(i, uid, ok)
           \/ SyncSave(i, uid, ok)

Sync == SyncWhen(BOOLEAN)

-----------------------------------------------------------------------------
(* Registration with its initial backfill: POST /api/users *)

UserIds == <<"u1", "u2", "u3", "u4", "u5", "u6">>
Applicants == {"alice"}

IdleReg ==
    [pc |-> "idle", username |-> NULL, displayName |-> NULL, roomId |-> NULL,
     submissions |-> <<>>, timezone |-> DEFAULT_TIMEZONE, userId |-> NULL, today |-> NULL,
     day |-> 0, sub |-> 0, response |-> NULL]

Answer(r, status) ==
    [IdleReg EXCEPT !.pc = "returned", !.response = Some(status)]

\* A mutant of FirstOn: the grouping keeps the last submission of a date, not the first.
LastOn(list, date, tz) ==
    LET at == {i \in 1..Len(list) : toISODate(list[i].timestamp, tz) = date}
    IN  IF at = {} THEN NULL ELSE Some(list[Max(at)])

\* The first submission of list dated date in zone tz (submissionsByDate.get), or NULL.
FirstOn(list, date, tz) ==
    LET at == {i \in 1..Len(list) : toISODate(list[i].timestamp, tz) = date}
    IN  IF at = {} THEN NULL ELSE Some(list[Min(at)])

\* The submissions of list dated date in zone tz (allSubmissionsByDate.get).
AllOn(list, date, tz) == SelectSeq(list, LAMBDA sub : toISODate(sub.timestamp, tz) = date)

\* The date of the day the backfill loop is at: today.minus({days: i}).toISODate().
LoopDate(today, day, tz) == toISODate(today, tz) - day

\* The loop moves to the next day, or the handler answers when the window is covered.
RegNextDay(r) ==
    IF r.day + 1 < WindowDays THEN [r EXCEPT !.pc = "day", !.day = @ + 1, !.sub = 0]
    ELSE Answer([r EXCEPT !.day = 0, !.sub = 0], 200)

\* Validation and the fetch that checks the user exists on LeetCode.
RegFetch(i, username, displayName, roomId, ok) ==
    /\ Arrives(reg, i)
    /\  reg' = [reg EXCEPT ![i] =
            IF username = NULL \/ displayName = NULL THEN Answer(@, 400)
            ELSE IF ~ok THEN Answer(@, 404)
            ELSE [@ EXCEPT !.pc = IF roomId # NULL THEN "room" ELSE "insert",
                           !.username = username, !.displayName = displayName,
                           !.roomId = roomId,
                           !.submissions = RecentAcSubmissionList(username[1])]]
    /\ UNCHANGED <<envVars, storeVars, sync, backfill, viewVars, roomVars, clockVars>>

\* The lookup of the room's timezone.
RegRoom(i, ok) ==
    /\ reg[i].pc = "room"
    /\  LET found == IF ok THEN {r \in rooms : r.id = reg[i].roomId[1]} ELSE {}
            roomData == IF found = {} THEN NULL ELSE Some(CHOOSE r \in found : TRUE)
        IN  reg' = [reg EXCEPT ![i] =
                [@ EXCEPT !.pc = "insert",
                          !.timezone = IF roomData # NULL /\ roomData[1].timezone # NULL
                                       THEN roomData[1].timezone[1] ELSE @]]
    /\ UNCHANGED <<envVars, storeVars, sync, backfill, viewVars, roomVars, clockVars>>

\* A mutant of UserConflict: the table has no unique constraint.
UserConflictUnchecked(table, username, roomId) == FALSE

\* users_room_username_unique: a NULL room_id never conflicts.
UserConflict(table, username, roomId) ==
    roomId # NULL /\ \E u \in table : u.leetcode_username = username /\ u.room_id = roomId

\* A mutant of RegInsert: the row is stored before the conflict is looked at, so that
\* the 409 leaves a row behind.
RegInsertThenCheck(i, ok) ==
    /\ reg[i].pc = "insert"
    /\  LET r == reg[i]
            id == UserIds[nextUserId]
        IN  IF ~ok
            THEN /\ reg' = [reg EXCEPT ![i] = Answer(@, 500)]
                 /\ UNCHANGED <<users, nextUserId>>
            ELSE /\ users' = users \cup {UserRow(id, r.username[1], r.displayName[1], r.roomId)}
                 /\ nextUserId' = nextUserId + 1
                 /\ reg' = [reg EXCEPT ![i] =
                        IF UserConflict(users, r.username[1], r.roomId) THEN Answer(@, 409)
                        ELSE IF Len(r.submissions) > 0
                        THEN [@ EXCEPT !.pc = "day", !.userId = Some(id), !.today = Some(now)]
                        ELSE Answer([@ EXCEPT !.userId = Some(id)], 200)]
    /\ UNCHANGED <<envVars, rooms, daily_results, submissions, sync, backfill, viewVars, roomVars, clockVars>>

\* The insert of the user; the backfill loop starts when there are submissions.
RegInsert(i, ok) ==
    /\ reg[i].pc = "insert"
    /\  LET r == reg[i]
            id == UserIds[nextUserId]
        IN  IF ~ok
            THEN /\ reg' = [reg EXCEPT ![i] = Answer(@, 500)]
                 /\ UNCHANGED <<users, nextUserId>>
            ELSE IF UserConflict(users, r.username[1], r.roomId)
            THEN /\ reg' = [reg EXCEPT ![i] = Answer(@, 409)]
                 /\ UNCHANGED <<users, nextUserId>>
            ELSE /\ users' = users \cup {UserRow(id, r.username[1], r.displayName[1], r.roomId)}
                 /\ nextUserId' = nextUserId + 1
                 /\ reg' = [reg EXCEPT ![i] =
                        IF Len(r.submissions) > 0
                        THEN [@ EXCEPT !.pc = "day", !.userId = Some(id), !.today = Some(now)]
                        ELSE Answer([@ EXCEPT !.userId = Some(id)], 200)]
    /\ UNCHANGED <<envVars, rooms, daily_results, submissions, sync, backfill, viewVars, roomVars, clockVars>>

\* The first store call of a day of the loop: the upsert of the solved row, or the
\* guard's read before a solved=false row.  No result of the loop's calls is checked.
RegDay(i, ok) ==
    /\ reg[i].pc = "day"
    /\  LET r == reg[i]
            dateStr == LoopDate(r.today[1], r.day, r.timezone)
            submission == FirstOn(r.submissions, dateStr, r.timezone)
            existing == IF ok THEN SelectDailyResult(daily_results, r.userId[1], dateStr)
                        ELSE NULL
        IN  IF submission # NULL
            THEN /\ daily_results' =
                        IF Written(ok, r.userId[1]) THEN UpsertDailyResult(daily_results,
                                       DailyRow(r.userId[1], dateStr, TRUE,
                                                Some(TimestampTz(toISO(submission[1].timestamp, "UTC"))),
                                                Some(submission[1].title),
                                                Some(submission[1].titleSlug),
                                                Some(submission[1].id)))
                        ELSE daily_results
                 /\ reg' = [reg EXCEPT ![i] = [@ EXCEPT !.pc = "subs", !.sub = 1]]
            ELSE /\ UNCHANGED daily_results
                 /\ reg' = [reg EXCEPT ![i] =
                        IF existing = NULL \/ existing[1].did_solve # TRUE
                        THEN [@ EXCEPT !.pc = "false"]
                        ELSE RegNextDay(@)]
    /\ UNCHANGED <<envVars, users, nextUserId, rooms, submissions, sync, backfill, viewVars, roomVars, clockVars>>

\* The upsert of the solved=false row of a day without a submission.
RegFalse(i, ok) ==
    /\ reg[i].pc = "false"
    /\  LET r == reg[i]
            dateStr == LoopDate(r.today[1], r.day, r.timezone)
        IN  /\ daily_results' =
                   IF Written(ok, r.userId[1]) THEN UpsertDailyResult(daily_results, MissedRow(r.userId[1], dateStr))
                   ELSE daily_results
            /\ reg' = [reg EXCEPT ![i] = RegNextDay(@)]
    /\ UNCHANGED <<envVars, users, nextUserId, rooms, submissions, sync, backfill, viewVars, roomVars, clockVars>>

\* The upsert of one submission of a solved day into the submissions table.
RegSub(i, ok) ==
    /\ reg[i].pc = "subs"
    /\  LET r == reg[i]
            dateStr == LoopDate(r.today[1], r.day, r.timezone)
            daySubs == AllOn(r.submissions, dateStr, r.timezone)
            s == daySubs[r.sub]
        IN  /\ submissions' =
                   IF Written(ok, r.userId[1]) THEN UpsertSubmission(submissions,
                                  SubmissionRow(r.userId[1], dateStr, s.title, s.titleSlug,
                                                TimestampTz(toISO(s.timestamp, "UTC")),
                                                Some(s.id)))
                   ELSE submissions
            /\ reg' = [reg EXCEPT ![i] =
                   IF r.sub < Len(daySubs) THEN [@ EXCEPT !.sub = @ + 1] ELSE RegNextDay(@)]
    /\ UNCHANGED <<envVars, users, nextUserId, rooms, daily_results, sync, backfill, viewVars, roomVars, clockVars>>

\* The steps of the registrations, with the outcomes oks of a source or store call.
\* The requests of procs, their calls succeeding as oks allows.
RegisterAmong(procs, oks) ==
    \/ \E i \in procs, username \in {NULL} \cup {Some(a) : a \in Applicants},
          displayName \in {NULL, Some("Al")}, roomId \in {NULL} \cup {Some(r.id) : r \in rooms},
          ok \in oks :
           RegFetch(i, username, displayName, roomId, ok)
    \/ \E i \in procs, ok \in oks :
           RegRoom(i, ok) \/ RegInsert(i, ok) \/ RegDay(i, ok) \/ RegFalse(i, ok) \/ RegSub(i, ok)

RegisterWhen(oks) == RegisterAmong(1..MaxRegs, oks)

Register == RegisterWhen(BOOLEAN)

\* The first request alone.
RegisterOnce == RegisterAmong({1}, BOOLEAN)

-----------------------------------------------------------------------------
(* Bulk backfill: GET /api/backfill *)

IdleBackfill ==
    [pc |-> "idle", pending |-> {}, user |-> NULL, submissions |-> <<>>, today |-> NULL,
     day |-> 0, response |-> NULL]

BfAnswer(status) == [IdleBackfill EXCEPT !.pc = "returned", !.response = Some(status)]

\* The users query.
BfUsers(i, ok) ==
    /\ Arrives(backfill, i)
    /\  backfill' = [backfill EXCEPT ![i] =
            IF ~ok THEN BfAnswer(500)
            ELSE IF users = {} THEN BfAnswer(200)
            ELSE [@ EXCEPT !.pc = "user", !.pending = users]]
    /\ UNCHANGED <<envVars, storeVars, sync, reg, viewVars, roomVars, clockVars>>

\* The fetch of the next user's submissions; a user whose fetch fails or who has no
\* submissions is passed over.
BfFetch(i, u, ok) ==
    /\ backfill[i].pc = "user"
    /\ u \in backfill[i].pending
    /\  LET list == IF ok THEN RecentAcSubmissionList(u.leetcode_username) ELSE <<>>
        IN  backfill' = [backfill EXCEPT ![i] =
                IF Len(list) = 0 THEN [@ EXCEPT !.pending = @ \ {u}]
                ELSE [@ EXCEPT !.pc = "day", !.user = Some(u), !.submissions = list,
                               !.today = Some(now), !.day = 0]]
    /\ UNCHANGED <<envVars, storeVars, sync, reg, viewVars, roomVars, clockVars>>

\* The row the loop writes for a date: solved when a submission is dated that day in
\* Pacific time, solved=false otherwise.
BackfillRow(userId, dateStr, list) ==
    LET submission == FirstOn(list, dateStr, PACIFIC_TZ)
    IN  IF submission # NULL
        THEN DailyRow(userId, dateStr, TRUE,
                      Some(TimestampTz(toISO(submission[1].timestamp, "UTC"))),
                      Some(submission[1].title), Some(submission[1].titleSlug),
                      Some(submission[1].id))
        ELSE MissedRow(userId, dateStr)

\* The upsert of one day of the window; its error is logged only.
BfDay(i, ok) ==
    /\ backfill[i].pc = "day"
    /\  LET b == backfill[i]
            dateStr == LoopDate(b.today[1], b.day, PACIFIC_TZ)
        IN  /\ daily_results' =
                   IF Written(ok, b.user[1].id) THEN UpsertDailyResult(daily_results,
                                  BackfillRow(b.user[1].id, dateStr, b.submissions))
                   ELSE daily_results
            /\ backfill' = [backfill EXCEPT ![i] =
                   IF b.day + 1 < WindowDays THEN [@ EXCEPT !.day = @ + 1]
                   ELSE [@ EXCEPT !.pc = "user", !.pending = @ \ {b.user[1]}, !.user = NULL,
                                  !.submissions = <<>>, !.today = NULL, !.day = 0]]
    /\ UNCHANGED <<envVars, users, nextUserId, rooms, submissions, sync, reg, viewVars, roomVars, clockVars>>

\* Every user was processed.
BfReturn(i) ==
    /\ backfill[i].pc = "user"
    /\ backfill[i].pending = {}
    /\ backfill' = [backfill EXCEPT ![i] = BfAnswer(200)]
    /\ UNCHANGED <<envVars, storeVars, sync, reg, viewVars, roomVars, clockVars>>

Backfill ==
    \/ \E i \in 1..MaxBackfills, ok \in BOOLEAN : BfUsers(i, ok) \/ BfDay(i, ok)
    \/ \E i \in 1..MaxBackfills : BfReturn(i)
    \/ \E i \in 1..MaxBackfills, u \in users, ok \in BOOLEAN : BfFetch(i, u, ok)

-----------------------------------------------------------------------------
(* The environment: the clock and the users solving problems *)

StartTime == DayLen * WindowDays

Tick ==
    /\ now < StartTime + MaxTicks
    /\ now' = now + 1
    /\ UNCHANGED <<source, storeVars, sync, reg, backfill, viewVars, roomVars, clockVars>>

RECURSIVE SumLen(_, _)
SumLen(f, S) == IF S = {} THEN 0 ELSE LET x == CHOOSE y \in S : TRUE
                                    IN  Len(f[x]) + SumLen(f, S \ {x})

\* username gets problem slug accepted now.  Problems are interchangeable, so the first
\* problem anyone solves is taken to be two-sum.
Submit(username, slug) ==
    /\ SumLen(source, Usernames) < MaxSubs
    /\ SumLen(source, Usernames) = 0 => slug = "two-sum"
    /\ source' = [source EXCEPT ![username] =
                     <<Submission(SumLen(source, Usernames) + 1, slug, now)>> \o @]
    /\ UNCHANGED <<now, storeVars, sync, reg, backfill, viewVars, roomVars, clockVars>>

\* The accounts that are tracked or apply to be.
Accounts == Applicants \cup {u.leetcode_username : u \in users}

Environment ==
    \/ Tick
    \/ \E username \in Accounts, slug \in Problems : Submit(username, slug)

-----------------------------------------------------------------------------
(* DELETE /api/users *)

\* One delete statement, by username alone: the user goes in every room that tracks
\* it, and with it its rows. Without a username, or when the statement fails, nothing
\* changes.
DeleteUser(username, ok) ==
    /\  LET remaining == IF username # NULL /\ ok
                         THEN {u \in users : u.leetcode_username # username[1]}
                         ELSE users
        IN  /\ users' = remaining
            /\ daily_results' = Cascade(daily_results, remaining)
            /\ submissions' = Cascade(submissions, remaining)
    /\ UNCHANGED <<envVars, nextUserId, rooms, sync, reg, backfill, viewVars, roomVars, clockVars>>

Delete == \E username \in {NULL} \cup {Some(u) : u \in Usernames}, ok \in BOOLEAN :
              DeleteUser(username, ok)

-----------------------------------------------------------------------------
(* Rooms: POST /api/rooms creates one, PATCH /api/rooms verifies a PIN *)

RoomRow(id, code, pin, timezone) ==
    [id |-> id, code |-> code, pin |-> pin, timezone |-> timezone]

\* const chars, one string of a character each.
chars ==
    <<"a", "b", "c", "d", "e", "f", "g", "h", "i", "j", "k", "l", "m", "n", "o", "p", "q", "r",
      "s", "t", "u", "v", "w", "x", "y", "z", "0", "1", "2", "3", "4", "5", "6", "7", "8", "9">>

CodeLen == 6
RetryBudget == 10

\* What Math.floor(Math.random() * chars.length) gives over the six turns of the loop:
\* MaxDraws of the sequences of indices it can give.
RandomDraws ==
    {[i \in 1..CodeLen |-> (k * i) % Len(chars)] : k \in 0..(MaxDraws - 1)}

\* generateRoomCode on the draws: a string is the sequence of its characters.
generateRoomCode(draws) == [i \in 1..CodeLen |-> chars[draws[i] + 1]]

InitialCode == generateRoomCode([i \in 1..CodeLen |-> 0])

\* String.prototype.trim on a sequence of characters.
RECURSIVE trim(_)
trim(str) ==
    IF str = <<>> THEN str
    ELSE IF Head(str) = " " THEN trim(Tail(str))
    ELSE IF str[Len(str)] = " " THEN trim(SubSeq(str, 1, Len(str) - 1))
    ELSE str

\* The strings a request body gives as pin, and an absent pin.
PinChars == {" ", "1"}
PinStrings == UNION {[1..n -> PinChars] : n \in 0..MaxPin}
Pins == {NULL} \cup {Some(str) : str \in PinStrings}

\* pin?.trim() || null
StoredPin(pin) == IF pin = NULL \/ trim(pin[1]) = <<>> THEN NULL ELSE Some(trim(pin[1]))

RoomIds == <<"r1", "r2", "r3", "r4">>

IdleCreate ==
    [pc |-> "idle", pin |-> NULL, code |-> NULL, attempts |-> 0, response |-> NULL,
     room |-> NULL]

\* A mutant of InsertRoom: the table has no unique constraint on code.
InsertRoomUnconstrained(table, row, ok) ==
    IF ok THEN Some(row) ELSE NULL

\* insert(...).select().single() on rooms: the row stored, or NULL on an error; a code
\* already stored violates rooms_code_key.
InsertRoom(table, row, ok) ==
    IF ok /\ ~\E r \in table : r.code = row.code THEN Some(row) ELSE NULL

\* The body is read and the first code generated.
RoomPost(i, pin, draws) ==
    /\ Arrives(creating, i)
    /\ creating' = [creating EXCEPT ![i] =
           [IdleCreate EXCEPT !.pc = "check", !.pin = pin,
                              !.code = Some(generateRoomCode(draws))]]
    /\ UNCHANGED <<envVars, storeVars, sync, reg, backfill, viewVars, pinView, clockVars>>

\* A turn of the while loop: the select of the code, whose error is not looked at.
RoomCheck(i, draws, ok) ==
    /\ creating[i].pc = "check"
    /\  LET c == creating[i]
            existing == ok /\ \E r \in rooms : r.code = c.code[1]
        IN  creating' = [creating EXCEPT ![i] =
                IF c.attempts < RetryBudget /\ existing
                THEN [c EXCEPT !.code = Some(generateRoomCode(draws)),
                               !.attempts = c.attempts + 1]
                ELSE [c EXCEPT !.pc = "insert"]]
    /\ UNCHANGED <<envVars, storeVars, sync, reg, backfill, viewVars, pinView, clockVars>>

\* The insert and the answer.
RoomInsert(i, ok) ==
    /\ creating[i].pc = "insert"
    /\  LET c == creating[i]
            row == RoomRow(RoomIds[Cardinality(rooms) + 1], c.code[1], StoredPin(c.pin),
                           Some(PACIFIC_TZ))
            room == InsertRoom(rooms, row, ok)
        IN  /\ rooms' = IF room = NULL THEN rooms ELSE rooms \cup {row}
            /\ creating' = [creating EXCEPT ![i] =
                   [c EXCEPT !.pc = "returned", !.room = room,
                             !.response = IF room = NULL THEN Some(500) ELSE Some(200)]]
    /\ UNCHANGED <<envVars, users, nextUserId, daily_results, submissions, sync, reg, backfill,
                   viewVars, pinView, clockVars>>

CreateRoomWhen(procs, pins, oks) ==
    \/ \E i \in procs, pin \in pins, draws \in RandomDraws : RoomPost(i, pin, draws)
    \/ \E i \in procs, draws \in RandomDraws, ok \in oks : RoomCheck(i, draws, ok)
    \/ \E i \in procs, ok \in oks : RoomInsert(i, ok)

CreateRoom == CreateRoomWhen(1..MaxCreates, Pins, BOOLEAN)

NoPinView == [code |-> NULL, pin |-> NULL, response |-> NULL, valid |-> NULL]

\* PATCH: the room is looked up by code and its pin compared with the candidate.
VerifyPin(code, pin, ok) ==
    /\  LET found == IF ok THEN {r \in rooms : r.code = code[1]} ELSE {}
            view == [NoPinView EXCEPT !.code = code, !.pin = pin]
        IN  pinView' =
                IF code = NULL THEN [view EXCEPT !.response = Some(400)]
                ELSE IF Cardinality(found) # 1 THEN [view EXCEPT !.response = Some(404)]
                ELSE LET room == CHOOSE r \in found : TRUE
                     IN  [view EXCEPT !.response = Some(200),
                                      !.valid = Some(room.pin = NULL \/ room.pin = pin)]
    /\ UNCHANGED <<envVars, storeVars, sync, reg, backfill, viewVars, creating, clockVars>>

Verify ==
    \E code \in {NULL} \cup {Some(generateRoomCode(d)) : d \in RandomDraws},
       pin \in Pins, ok \in BOOLEAN : VerifyPin(code, pin, ok)

-----------------------------------------------------------------------------
(* Processes at rest *)

AtRest ==
    /\ sync = [i \in 1..MaxSyncs |-> IdleSync]
    /\ reg = [i \in 1..MaxRegs |-> IdleReg]
    /\ backfill = [i \in 1..MaxBackfills |-> IdleBackfill]
    /\ streakView = NoView
    /\ statusView = NoStatusView
    /\ streaks = NoStreaks
    /\ upsert = NoUpsert
    /\ creating = [i \in 1..MaxCreates |-> IdleCreate]
    /\ pinView = NoPinView
    /\ millis = 0
    /\ countdown = NoCountdown

InitialRooms == {RoomRow("r1", InitialCode, NULL, Some("UTC"))}

-----------------------------------------------------------------------------
(* The streak functions applied to stored histories *)

HistoryUser == "u1"
OtherUser == "u2"

HistoryRow(userId, date, kind) ==
    IF kind = "solved" THEN SolvedRow(userId, date, date * DayLen + 1, "two-sum", date + 1)
    ELSE MissedRow(userId, date)

StreakInit ==
    /\ now \in DayLen..((MaxDate + 1) * DayLen - 1)
    /\ source = [u \in Usernames |-> <<>>]
    /\ users = {UserRow(HistoryUser, "alice", "Al", Some("r1")),
                UserRow(OtherUser, "bob", "Bo", NULL)}
    /\ nextUserId = 3
    /\ rooms = InitialRooms
    /\ \E history \in [0..MaxDate -> {"none", "solved", "missed"}], other \in BOOLEAN :
           daily_results = SetToBag(
               {HistoryRow(HistoryUser, d, history[d]) :
                    d \in {x \in 0..MaxDate : history[x] # "none"}}
               \cup {HistoryRow(OtherUser, d, "solved") : d \in {x \in 0..MaxDate : other}})
    /\ submissions = EmptyBag
    /\ AtRest

StreakNext ==
    \/ \E u \in {HistoryUser, OtherUser}, tz \in COMMON_TIMEZONES : calculateCurrentStreak(u, tz)
    \/ \E u \in {HistoryUser, OtherUser} : calculateLongestStreak(u)
    \/ \E u \in {HistoryUser, OtherUser}, tz \in COMMON_TIMEZONES : getTodayResult(u, tz)

StreakSpec == StreakInit /\ [][StreakNext]_vars

\* User u has a solved row for date d.
SolvedOn(u, d) == \E r \in Rows(daily_results) : r.user_id = u /\ r.date = d /\ r.did_solve

HasRow(u, d, solved) ==
    \E r \in Rows(daily_results) : r.user_id = u /\ r.date = d /\ r.did_solve = solved

\* The length of the maximal run of consecutive solved dates of u that ends at d.
RunEndingAt(u, d) ==
    Max({k \in 0..(MaxDate + 2) : \A j \in 0..(k - 1) : SolvedOn(u, d - j)})

\* The length of the longest run of consecutive solved dates of u.
LongestRun(u) == Max({RunEndingAt(u, d) : d \in 0..(MaxDate + 1)})

CurrentView == streakView.fn = "current" /\ ~streakView.error
LongestView == streakView.fn = "longest" /\ ~streakView.error
ViewUser == streakView.userId[1]
ViewToday == streakView.today[1]

-----------------------------------------------------------------------------
(* checkTodayStatus applied to fetched lists *)

StatusDays == 3

\* A newest-first list with the given timestamps.
ListOf(stamps) ==
    [i \in 1..Len(stamps) |->
        Submission(Len(stamps) - i + 1,
                   IF i % 2 = 1 THEN "two-sum" ELSE "lru-cache", stamps[i])]

NewestFirst(list) == \A i \in 1..(Len(list) - 1) : list[i].timestamp >= list[i + 1].timestamp

StatusInit ==
    /\ now \in 1..(StatusDays * DayLen - 1)
    /\ \E n \in 0..MaxList : \E stamps \in [1..n -> 0..(StatusDays * DayLen - 1)] :
           /\ \A i \in 1..(n - 1) : stamps[i] >= stamps[i + 1]
           /\ source = [u \in Usernames |-> IF u = "alice" THEN ListOf(stamps) ELSE <<>>]
    /\ users = {}
    /\ nextUserId = 1
    /\ rooms = InitialRooms
    /\ daily_results = EmptyBag
    /\ submissions = EmptyBag
    /\ AtRest

StatusNext == \E u \in Usernames, tz \in COMMON_TIMEZONES : CheckStatus(u, tz)

StatusSpec == StatusInit /\ [][StatusNext]_vars

\* The positions of the fetched list whose submission is dated today in the zone asked for.
ViewTodayAt ==
    {i \in 1..Len(statusView.fetched[1]) :
        isTodayInTimezone(statusView.fetched[1][i].timestamp, statusView.timezone[1])}

\* C10: for every newest-first list of fetched submissions, checkTodayStatus returns
\* isDone=true exactly when a submission is dated today in the given zone, with the
\* title, slug, id and solve time of the most recent such submission; otherwise
\* isDone=false and the four fields are null.
C10_StatusIsLatestOfToday ==
    (statusView.fetched # NULL /\ NewestFirst(statusView.fetched[1])) =>
        LET list == statusView.fetched[1]
            status == statusView.status
        IN  /\ ~statusView.threw
            /\ status.isDone <=> ViewTodayAt # {}
            /\ ViewTodayAt = {} => status = NotDone
            /\ ViewTodayAt # {} =>
                   \E i \in ViewTodayAt :
                       /\ \A j \in ViewTodayAt : list[j].timestamp <= list[i].timestamp
                       /\ status.problemTitle = Some(list[i].title)
                       /\ status.problemSlug = Some(list[i].titleSlug)
                       /\ status.submissionId = Some(list[i].id)
                       /\ status.solveTime # NULL
                       /\ TimestampTz(status.solveTime[1]) = list[i].timestamp

C10_Witness ==
    /\ statusView.fetched # NULL /\ statusView.status.isDone
    /\ \E i, j \in ViewTodayAt :
           statusView.fetched[1][i].timestamp > statusView.fetched[1][j].timestamp
    /\ 1 \notin ViewTodayAt

-----------------------------------------------------------------------------
(* The running system *)

Init ==
    /\ now = StartTime
    /\ source = [u \in Usernames |-> <<>>]
    /\ users = {}
    /\ nextUserId = 1
    /\ rooms = InitialRooms
    /\ daily_results = EmptyBag
    /\ submissions = EmptyBag
    /\ AtRest

\* One registration; the sync invocations and the bulk backfill run beside it.
Next == Environment \/ RegisterOnce \/ Sync \/ Backfill

Spec == Init /\ [][Next]_vars

\* Claim C1: a step of a sync invocation or of a registration never changes a row
\* that is solved to a row that is not, whatever other requests are in flight.
C1_AutomatedWritesKeepSolved ==
    [][(sync' # sync \/ reg' # reg) =>
        \A r \in Rows(daily_results) :
            r.did_solve => \E q \in Rows(daily_results') :
                               q.user_id = r.user_id /\ q.date = r.date /\ q.did_solve]_vars

\* Claim C3: daily_results holds at most one row for each (user id, date), whatever
\* syncs, registrations and bulk backfills have run or are running.
C3_OneRowPerUserAndDate ==
    \A r \in Rows(daily_results) :
        /\ daily_results[r] = 1
        /\ \A q \in Rows(daily_results) : q.user_id = r.user_id /\ q.date = r.date => q = r

\* A sync and a bulk backfill are both about to write the row of the same user and
\* date, which the registration already stored.
C3_Witness ==
    \E i \in 1..MaxSyncs, j \in 1..MaxBackfills, r \in Rows(daily_results) :
        /\ backfill[j].pc = "day"
        /\ backfill[j].user[1].id = r.user_id
        /\ LoopDate(backfill[j].today[1], backfill[j].day, PACIFIC_TZ) = r.date
        /\ sync[i].pc = "fanout"
        /\ r.user_id \in DOMAIN sync[i].task
        /\ sync[i].task[r.user_id].pc = "write"
        /\ getDateForTimezone(sync[i].task[r.user_id].timezone) = r.date
        /\ \E k \in 1..MaxRegs : reg[k].response = Some(200)

-----------------------------------------------------------------------------
(* Sync invocations served one at a time, over two tracked users *)

SyncInit ==
    /\ now = StartTime
    /\ source = [u \in Usernames |-> <<>>]
    /\ users = {UserRow("u1", "alice", "Al", Some("r1")), UserRow("u2", "bob", "Bo", NULL)}
    /\ nextUserId = 3
    /\ rooms = InitialRooms
    /\ daily_results = EmptyBag
    /\ submissions = EmptyBag
    /\ AtRest

SyncNext ==
    /\ Environment \/ Sync
    /\ Cardinality(InFlight(sync')) <= 1

SyncSpec == SyncInit /\ [][SyncNext]_vars

Tasks(i) == DOMAIN sync[i].task

\* Claim C2: with no other request in flight, no step of a user's body whose status is
\* not done changes or removes a solved row of that user.
C2_NotDoneWriteKeepsSolvedRow ==
    [][\A i \in 1..MaxSyncs : \A uid \in Tasks(i) :
          (sync[i].task[uid].status # NULL /\ ~sync[i].task[uid].status[1].isDone) =>
              \A r \in Rows(daily_results) :
                  (r.user_id = uid /\ r.did_solve) => r \in Rows(daily_results')]_vars

\* Claim C8: the failure of one user's body becomes that user's outcome and leaves
\* the invocation and the other users' bodies as they are; a body whose upsert
\* returns leaves a row for its user and date, solved when the status is done; and
\* the invocation answers 200 with exactly one outcome per resolved user.
C8_FailureStaysWithItsUser ==
    [][\A i \in 1..MaxSyncs :
        /\ \A uid \in Tasks(i) :
            LET t == sync[i].task[uid]
            IN  /\ (t.pc # "done" /\ sync'[i].pc = "returned") => FALSE
                /\ (sync'[i].pc = "fanout" /\ sync'[i].task[uid] # t) =>
                       /\ \A v \in Tasks(i) \ {uid} : sync'[i].task[v] = sync[i].task[v]
                       /\ sync'[i].users = sync[i].users
                /\ (t.pc = "write" /\ sync'[i].pc = "fanout"
                        /\ sync'[i].task[uid].pc = "subs") =>
                       \E r \in Rows(daily_results') :
                           /\ r.user_id = uid
                           /\ r.date = sync'[i].task[uid].today[1]
                           /\ r.did_solve = t.status[1].isDone
                /\ (t.pc # "done" /\ sync'[i].pc = "fanout"
                        /\ sync'[i].task[uid].pc = "done") =>
                       sync'[i].task[uid].outcome[1].success
                           = (t.pc \in {"subs", "save"})
        /\ (sync[i].pc = "fanout" /\ sync'[i].pc = "returned") =>
               /\ sync'[i].response[1].status = 200
               /\ sync'[i].response[1].results # NULL
               /\ DOMAIN sync'[i].response[1].results[1] = {u.id : u \in sync[i].users}
               /\ \A uid \in Tasks(i) :
                      sync'[i].response[1].results[1][uid] = sync[i].task[uid].outcome[1]]_vars

\* An invocation over two users is about to answer: one user's body failed, and the
\* other's wrote a solved row.
C8_Witness ==
    \E i \in 1..MaxSyncs : \E u, v \in Tasks(i) :
        /\ sync[i].pc = "fanout"
        /\ sync[i].task[u].pc = "done" /\ ~sync[i].task[u].outcome[1].success
        /\ sync[i].task[v].pc = "done" /\ sync[i].task[v].outcome[1].success
        /\ sync[i].task[v].outcome[1].isDone = Some(TRUE)
        /\ \E r \in Rows(daily_results) : r.user_id = v /\ r.did_solve

-----------------------------------------------------------------------------------------------------------------------------------------------------
(* Sync runs, one after the other, over a source and a clock that stand still *)

MaxStamps == 2      \* submissions the first user's source holds

\* The newest-first lists of at most MaxStamps submissions of the last two ticks.
SourceLists ==
    UNION {{[i \in 1..n |-> Submission(n - i + 1, slugs[i], stamps[i])] :
                stamps \in {f \in [1..n -> {StartTime - 1, StartTime}] :
                               \A i \in 1..(n - 1) : f[i] >= f[i + 1]},
                slugs \in [1..n -> Problems]} : n \in 0..MaxStamps}

SourcedInit ==
    /\ now \in {StartTime, StartTime + 1}
    /\ \E list \in SourceLists, other \in BOOLEAN :
           source = [u \in Usernames |->
                        IF u = "alice" THEN list
                        ELSE IF other THEN <<Submission(9, "two-sum", StartTime)>> ELSE <<>>]
    /\ users = {UserRow("u1", "alice", "Al", Some("r1")), UserRow("u2", "bob", "Bo", NULL)}
    /\ nextUserId = 3
    /\ rooms = InitialRooms
    /\ daily_results = EmptyBag
    /\ submissions = EmptyBag
    /\ AtRest

\* Runs whose source and store calls may fail.
SourcedNext ==
    /\ Sync
    /\ Cardinality(InFlight(sync')) <= 1

SourcedSpec == SourcedInit /\ [][SourcedNext]_vars

\* Runs whose source and store calls all succeed.
IdemNext ==
    /\ SyncWhen({TRUE})
    /\ Cardinality(InFlight(sync')) <= 1

IdemSpec == SourcedInit /\ [][IdemNext]_vars

\* The timezone of a user's room as the rooms table has it.
TimezoneOf(u) ==
    IF u.room_id = NULL THEN DEFAULT_TIMEZONE
    ELSE LET found == {r \in rooms : r.id = u.room_id[1]}
         IN  IF found = {} THEN DEFAULT_TIMEZONE
             ELSE LET r == CHOOSE x \in found : TRUE
                  IN  IF r.timezone # NULL THEN r.timezone[1] ELSE DEFAULT_TIMEZONE

\* The first run is complete: it answered with success = true for every tracked user.
FirstRunCompleted ==
    /\ sync[1].pc = "returned"
    /\ sync[1].response[1].status = 200
    /\ sync[1].response[1].results # NULL
    /\ DOMAIN sync[1].response[1].results[1] = {u.id : u \in users}
    /\ \A uid \in {u.id : u \in users} : sync[1].response[1].results[1][uid].success

\* Claim C11: once a first run is complete, no step of a second run over the same source
\* and date changes daily_results or submissions, and submissions holds at most one row
\* per (user, date, problem slug).
C11_SecondRunChangesNothing ==
    [][FirstRunCompleted =>
          /\ daily_results' = daily_results /\ submissions' = submissions
          /\ \A r \in Rows(submissions') :
                 /\ submissions'[r] = 1
                 /\ \A q \in Rows(submissions') :
                        (q.user_id = r.user_id /\ q.date = r.date
                            /\ q.problem_slug = r.problem_slug) => q = r]_vars

\* The second run has written a solved row again and is about to save the submissions
\* the first run saved.
C11_Witness ==
    /\ FirstRunCompleted
    /\ sync[2].pc = "fanout"
    /\ \E uid \in Tasks(2) :
           /\ sync[2].task[uid].pc = "save"
           /\ sync[2].task[uid].status[1].isDone
           /\ sync[2].task[uid].today # NULL
           /\ \E r \in Rows(submissions) : r.user_id = uid

\* Today's submissions of a tracked user as the source lists them now.
SourceToday(u) == TodaySubmissions(RecentAcSubmissionList(u.leetcode_username), TimezoneOf(u))

\* Claim C12: every step of a user's body after its upsert, the failing ones included,
\* keeps the body from failure (it ends with success = true and the status's isDone) and
\* leaves daily_results as it is.
C12_SecondaryFailureIsSwallowed ==
    [][\A i \in 1..MaxSyncs : \A uid \in Tasks(i) :
          LET t == sync[i].task[uid]
          IN  (t.pc \in {"subs", "save"} /\ sync'[i] # sync[i]
                  /\ sync'[i].pc = "fanout" /\ sync'[i].task[uid] # t) =>
                  /\ daily_results' = daily_results
                  /\ sync'[i].task[uid].pc \in {"save", "done"}
                  /\ sync'[i].task[uid].pc = "done" =>
                         /\ sync'[i].task[uid].outcome[1].success
                         /\ sync'[i].task[uid].outcome[1].isDone = Some(t.status[1].isDone)]_vars

\* Both users' bodies ended with success = true and a solved row each: one whose fetch
\* of today's submissions failed (none counted although the source lists some), one
\* whose saveSubmissions failed (some counted, none stored).
C12_Witness ==
    \E i \in 1..MaxSyncs : \E u, v \in sync[i].users :
        /\ sync[i].pc = "fanout"
        /\ \A w \in {u, v} :
               /\ sync[i].task[w.id].pc = "done"
               /\ sync[i].task[w.id].outcome[1].success
               /\ sync[i].task[w.id].timezone = TimezoneOf(w)
               /\ Len(SourceToday(w)) > 0
               /\ \E r \in Rows(daily_results) : r.user_id = w.id /\ r.did_solve
        /\ sync[i].task[u.id].outcome[1].totalSubmissions = Some(0)
        /\ sync[i].task[v.id].outcome[1].totalSubmissions = Some(Len(SourceToday(v)))
        /\ ~BatchConflicts(SubmissionRows(v.id, getDateForTimezone(TimezoneOf(v)), SourceToday(v)))
        /\ ~\E r \in Rows(submissions) : r.user_id = v.id

-----------------------------------------------------------------------------
(* A registration whose source and store calls all succeed *)

RegInit ==
    /\ now \in {StartTime, StartTime + 1}
    /\ \E n \in 0..MaxList : \E stamps \in [1..n -> 0..StartTime] :
           /\ \A i \in 1..(n - 1) : stamps[i] >= stamps[i + 1]
           /\ source = [u \in Usernames |-> IF u = "alice" THEN ListOf(stamps) ELSE <<>>]
    /\ users = {}
    /\ nextUserId = 1
    /\ rooms = InitialRooms
    /\ daily_results = EmptyBag
    /\ submissions = EmptyBag
    /\ AtRest

RegNext == RegisterWhen({TRUE}) \/ Tick

RegSpec == RegInit /\ [][RegNext]_vars

\* The dates of the backfill window of a loop that took today at instant t in zone tz.
Window(t, tz) == {toISODate(t, tz) - d : d \in 0..(WindowDays - 1)}

\* The dates, in zone tz, of the submissions of list.
DatesOf(list, tz) == {toISODate(list[i].timestamp, tz) : i \in 1..Len(list)}

\* Row carries a most recent submission of list dated as the row in zone tz.
CarriesMostRecent(row, list, tz) ==
    \E i \in 1..Len(list) :
        /\ toISODate(list[i].timestamp, tz) = row.date
        /\ \A j \in 1..Len(list) :
               toISODate(list[j].timestamp, tz) = row.date =>
                   list[j].timestamp <= list[i].timestamp
        /\ row.solved_at = Some(list[i].timestamp)
        /\ row.problem_title = Some(list[i].title)
        /\ row.problem_slug = Some(list[i].titleSlug)
        /\ row.submission_id = Some(list[i].id)

\* Claim C13: when a registration answers 200, the rows of the new user are these: one
\* solved row for each date of the window, in the room's timezone, that has a fetched
\* submission, carrying that date's most recent submission; no other solved row; no
\* row outside the window; and one row at most per date.
C13_BackfillRowsMatchSubmissions ==
    [][\A i \in 1..MaxRegs :
          (reg[i].pc \in {"insert", "day", "false", "subs"} /\ reg'[i].pc = "returned"
              /\ reg'[i].response = Some(200)) =>
              LET r == reg[i]
                  id == IF r.pc = "insert" THEN UserIds[nextUserId] ELSE r.userId[1]
                  t == IF r.pc = "insert" THEN now ELSE r.today[1]
                  mine == {row \in Rows(daily_results') : row.user_id = id}
                  solved == {row \in mine : row.did_solve}
              IN  /\ \E u \in users' : u.id = id /\ r.timezone = TimezoneOf(u)
                  /\ {row.date : row \in solved}
                         = DatesOf(r.submissions, r.timezone) \cap Window(t, r.timezone)
                  /\ \A row \in solved : CarriesMostRecent(row, r.submissions, r.timezone)
                  /\ \A row \in mine :
                         /\ row.date \in Window(t, r.timezone)
                         /\ daily_results'[row] = 1
                         /\ \A q \in mine : q.date = row.date => q = row]_vars

\* A registration answered 200 for a user with three submissions: two on one date of
\* the window, the third before the window; the user has a solved row and a row that
\* is not solved.
C13_Witness ==
    \E i \in 1..MaxRegs : \E u \in users :
        LET list == source[u.leetcode_username]
            tz == TimezoneOf(u)
            mine == {row \in Rows(daily_results) : row.user_id = u.id}
        IN  /\ reg[i].response = Some(200)
            /\ Len(list) = 3
            /\ toISODate(list[1].timestamp, tz) = toISODate(list[2].timestamp, tz)
            /\ list[1].timestamp > list[2].timestamp
            /\ \A row \in mine : toISODate(list[3].timestamp, tz) < row.date
            /\ Cardinality({row \in mine : row.did_solve}) = 1
            /\ Cardinality({row \in mine : ~row.did_solve}) = 1

-----------------------------------------------------------------------------
(* Rooms created and PINs verified *)

RoomInit ==
    /\ now = StartTime
    /\ source = [u \in Usernames |-> <<>>]
    /\ users = {}
    /\ nextUserId = 1
    /\ rooms = InitialRooms
    /\ daily_results = EmptyBag
    /\ submissions = EmptyBag
    /\ AtRest

\* Creations of rooms without a PIN, in any interleaving.
RoomNext == CreateRoomWhen(1..MaxCreates, {NULL}, BOOLEAN)

RoomSpec == RoomInit /\ [][RoomNext]_vars

\* One creation, with any PIN, and verifications before and after it.
PinNext == CreateRoomWhen({1}, Pins, BOOLEAN) \/ Verify

PinSpec == RoomInit /\ [][PinNext]_vars

\* Claim C14: a room created with a PIN p accepts a candidate exactly when the candidate
\* equals p, and a room created without a PIN (none given, or the empty string) accepts
\* every candidate.
C14_PinAcceptedExactlyWhenEqual ==
    \A i \in 1..MaxCreates :
        (/\ creating[i].room # NULL
         /\ pinView.response = Some(200)
         /\ pinView.code = Some(creating[i].room[1].code)) =>
            LET p == creating[i].pin
            IN  IF p = NULL \/ p = Some(<<>>)
                THEN pinView.valid = Some(TRUE)
                ELSE pinView.valid = Some(pinView.pin = p)

Lowercase ==
    {"a", "b", "c", "d", "e", "f", "g", "h", "i", "j", "k", "l", "m", "n", "o", "p", "q", "r",
     "s", "t", "u", "v", "w", "x", "y", "z"}
Digits == {"0", "1", "2", "3", "4", "5", "6", "7", "8", "9"}

\* Claim C19: at every moment no two rooms share a code and every stored code is six
\* characters, each a lowercase letter or a digit; and a creation that reaches its insert
\* with a code that is in use, its retries spent or its check overtaken by another
\* creation, answers 500 and stores no room.
C19_CodesUniqueAndWellFormed ==
    /\ [](\A r \in rooms :
              /\ \A q \in rooms : q.code = r.code => q = r
              /\ Len(r.code) = 6
              /\ \A k \in 1..Len(r.code) : r.code[k] \in Lowercase \cup Digits)
    /\ [][\A i \in 1..MaxCreates :
              (/\ creating[i].pc = "insert" /\ creating'[i].pc = "returned"
               /\ \E r \in rooms : r.code = creating[i].code[1]) =>
                  /\ rooms' = rooms
                  /\ creating'[i].response = Some(500)
                  /\ creating'[i].room = NULL]_vars

\* One creation spent its ten retries on codes in use, drew a used code again and
\* answered 500; another one created a room.
C19_Witness ==
    \E i, j \in 1..MaxCreates :
        /\ creating[i].pc = "returned" /\ creating[i].attempts = RetryBudget
        /\ creating[i].response = Some(500)
        /\ \E r \in rooms : r.code = creating[i].code[1]
        /\ creating[j].response = Some(200)
        /\ creating[j].room[1] \in rooms
        /\ Cardinality(rooms) = 2

-----------------------------------------------------------------------------
(* Registration, deletion and sync, interleaved *)

DeleteInit ==
    /\ now = StartTime
    /\ source = [u \in Usernames |-> <<Submission(9, "two-sum", StartTime)>>]
    /\ users = {UserRow("u1", "alice", "Al", Some("r1")), UserRow("u2", "bob", "Bo", NULL)}
    /\ nextUserId = 3
    /\ rooms = InitialRooms
    /\ daily_results = EmptyBag
    /\ submissions = EmptyBag
    /\ AtRest

\* One sync invocation, one registration and any number of deletions.
DeleteNext ==
    /\ Sync \/ RegisterOnce \/ Delete
    /\ \A i \in 2..MaxSyncs : sync'[i].pc = "idle"

DeleteSpec == DeleteInit /\ [][DeleteNext]_vars

\* Claim C15: at every moment every row of daily_results references a stored user; a
\* delete leaves no row of the users it removes, and no later step of a request that was
\* in flight brings one back.
C15_RowsReferenceStoredUsers ==
    \A row \in Rows(daily_results) : \E u \in users : u.id = row.user_id

\* A sync has ended the body of a user that was deleted while the sync was in flight,
\* with a failure, while the body of the other user stored its row.
C15_Witness ==
    \E i \in 1..MaxSyncs : \E u, v \in sync[i].users :
        /\ u \notin users /\ v \in users
        /\ u.id \in Tasks(i) /\ v.id \in Tasks(i)
        /\ sync[i].task[u.id].pc = "done" /\ ~sync[i].task[u.id].outcome[1].success
        /\ sync[i].task[v.id].pc = "done" /\ sync[i].task[v.id].outcome[1].success
        /\ \E row \in Rows(daily_results) : row.user_id = v.id

-----------------------------------------------------------------------------
(* Registrations, interleaved, whose calls succeed *)

DuplicateInit ==
    /\ now = StartTime
    /\ source = [u \in Usernames |-> <<Submission(9, "two-sum", StartTime)>>]
    /\ \E stored \in SUBSET {UserRow("u1", "alice", "Al", Some("r1")),
                             UserRow("u2", "bob", "Bo", Some("r1"))} : users = stored
    /\ nextUserId = 3
    /\ rooms = InitialRooms
    /\ daily_results = EmptyBag
    /\ submissions = EmptyBag
    /\ AtRest

DuplicateNext == RegisterWhen({TRUE})

DuplicateSpec == DuplicateInit /\ [][DuplicateNext]_vars

\* Claim C16: at every moment no two stored users of one room have the same username;
\* and the insert of a registration whose username is stored in its room stores nothing
\* and answers 409.
C16_UsernameUniqueWithinRoom ==
    /\ [](\A u, v \in users :
              (u.room_id # NULL /\ u.room_id = v.room_id
                  /\ u.leetcode_username = v.leetcode_username) => u = v)
    /\ [][\A i \in 1..MaxRegs :
              (/\ reg[i].pc = "insert" /\ reg'[i] # reg[i]
               /\ reg[i].roomId # NULL
               /\ \E u \in users : /\ u.leetcode_username = reg[i].username[1]
                                   /\ u.room_id = reg[i].roomId) =>
                  /\ users' = users
                  /\ reg'[i].response = Some(409)]_vars

\* Two registrations of one username in one room, where it was not stored, have both
\* answered: one with 200, the other with 409.
C16_Witness ==
    \E i, j \in 1..MaxRegs :
        /\ reg[i].response = Some(200) /\ reg[j].response = Some(409)
        /\ \E u \in users : u.leetcode_username = "alice" /\ u.room_id = Some("r1") /\ u.id = "u3"

-----------------------------------------------------------------------------
(* A sync of one room *)

\* The rows of table that belong to the user u.
RowsOf(table, u) == Restrict(table, {r \in Rows(table) : r.user_id = u.id})

\* Claim C17: an invocation for a room runs the body of users of that room only, and no
\* step taken while it is the one request in flight changes a daily_results or
\* submissions row of a user outside the room.
C17_ScopedSyncLeavesOthersAlone ==
    [][\A i \in 1..MaxSyncs :
          (sync[i].pc \notin {"idle", "returned"} /\ sync[i].roomId # NULL) =>
              /\ \A u \in sync[i].users : u.room_id = sync[i].roomId
              /\ \A uid \in Tasks(i) : \E u \in sync[i].users : u.id = uid
              /\ \A u \in users :
                     u.room_id # sync[i].roomId =>
                         /\ RowsOf(daily_results', u) = RowsOf(daily_results, u)
                         /\ RowsOf(submissions', u) = RowsOf(submissions, u)]_vars

\* An invocation for a room has stored the solved row of its user, while a user outside
\* the room, who has solved today too, has no row.
C17_Witness ==
    \E i \in 1..MaxSyncs : \E u, v \in users :
        /\ sync[i].pc = "fanout" /\ sync[i].roomId = u.room_id /\ u.room_id # NULL
        /\ v.room_id # u.room_id
        /\ u.id \in Tasks(i) /\ sync[i].task[u.id].pc = "done"
        /\ sync[i].task[u.id].outcome[1].success
        /\ \E row \in Rows(RowsOf(daily_results, u)) : row.did_solve
        /\ Len(TodaySubmissions(source[v.leetcode_username], DEFAULT_TIMEZONE)) > 0
        /\ RowsOf(daily_results, v) = EmptyBag
        /\ RowsOf(submissions, v) = EmptyBag

-----------------------------------------------------------------------------
(* Reads of the streak library whose store call fails *)

\* Claim C18: a call of getTodayResult whose read fails returns null, a call of
\* calculateCurrentStreak or calculateLongestStreak whose read fails returns 0, and no
\* call of the three changes a table.
C18_FailedReadGivesDefault ==
    /\ [](streakView.error =>
              /\ streakView.fn = "today" => streakView.result = NULL
              /\ streakView.fn \in {"current", "longest"} => streakView.value = 0)
    /\ [][streakView' # streakView => UNCHANGED storeVars]_vars

\* getTodayResult was called for a user whose row of today is stored and solved, and
\* its read failed.
C18_Witness ==
    /\ streakView.fn = "today" /\ streakView.error
    /\ HasRow(ViewUser, ViewToday, TRUE)

-----------------------------------------------------------------------------
(* The countdown to midnight, called while the clock runs *)

ClockInit ==
    /\ now = StartTime
    /\ source = [u \in Usernames |-> <<>>]
    /\ users = {}
    /\ nextUserId = 1
    /\ rooms = InitialRooms
    /\ daily_results = EmptyBag
    /\ submissions = EmptyBag
    /\ AtRest

ClockNext ==
    \/ Millisecond
    \/ \E tz \in COMMON_TIMEZONES : getSecondsUntilMidnight(tz)

ClockSpec == ClockInit /\ [][ClockNext]_vars

\* The call before the last one was for the same timezone, on the same date.
SameDayBefore ==
    /\ countdown.tz # NULL /\ countdown.before # NULL
    /\ countdown.before[1].tz = countdown.tz
    /\ countdown.before[1].date = countdown.date

\* The last call happened at the first millisecond of a day of its timezone.
AtStartOfDay ==
    (countdown.at + UtcOffset(countdown.tz[1], countdown.at \div TickLen) * TickLen)
        % (DayLen * TickLen) = 0

\* Claim C20, as stated: every call returns a number of seconds from 0 up to, and not
\* including, the seconds of a day; and of two calls for one timezone on one date the
\* later returns strictly less.
C20_CountdownBelowDayAndStrict ==
    countdown.tz # NULL =>
        /\ countdown.value \in 0..(SecondsPerDay - 1)
        /\ (SameDayBefore /\ countdown.before[1].at < countdown.at) =>
               countdown.value < countdown.before[1].value

\* Claim C20, amended: every call returns a number of seconds from 0 up to the seconds
\* of a day, the seconds of a day at the first millisecond of a day only; and of two
\* calls for one timezone on one date the later never returns more, and returns
\* strictly less when it comes a second or more after the earlier.
C20_CountdownWithinDayAndFalling ==
    countdown.tz # NULL =>
        /\ countdown.value \in 0..SecondsPerDay
        /\ countdown.value = SecondsPerDay => AtStartOfDay
        /\ SameDayBefore =>
               /\ countdown.value <= countdown.before[1].value
               /\ countdown.at - countdown.before[1].at >= MillisPerSecond =>
                      countdown.value < countdown.before[1].value

\* A call at the first millisecond of a day returned the seconds of a day, and a call
\* on the same date, less than a second later, returned less.
C20_Witness ==
    /\ SameDayBefore
    /\ countdown.before[1].value = SecondsPerDay
    /\ countdown.before[1].at < countdown.at
    /\ countdown.at - countdown.before[1].at < MillisPerSecond
    /\ countdown.value < countdown.before[1].value

-----------------------------------------------------------------------------
(* Sync invocations, one at a time, whose calls succeed, while the clock runs *)

ZonedInit ==
    /\ now = StartTime
    /\ source = [u \in Usernames |-> <<>>]
    /\ users = {UserRow("u1", "alice", "Al", Some("r1")), UserRow("u2", "bob", "Bo", NULL)}
    /\ nextUserId = 3
    /\ \E tz \in COMMON_TIMEZONES : rooms = {RoomRow("r1", InitialCode, NULL, Some(tz))}
    /\ daily_results = EmptyBag
    /\ submissions = EmptyBag
    /\ AtRest

ZonedNext ==
    /\ Environment \/ SyncWhen({TRUE})
    /\ Cardinality(InFlight(sync')) <= 1

ZonedSpec == ZonedInit /\ [][ZonedNext]_vars

\* Claim C21: at every moment the solve time of every solved row of a user falls, in the
\* timezone of the user's room, on the date of the row.
C21_SolveTimeFallsOnRowDate ==
    \A row \in Rows(daily_results) : \A u \in users :
        (row.did_solve /\ u.id = row.user_id) =>
            /\ row.solved_at # NULL
            /\ toISODate(row.solved_at[1], TimezoneOf(u)) = row.date

-----------------------------------------------------------------------------
(* Sync runs over a store that holds a row of today already *)

\* What daily_results may hold for the first user when the runs begin: nothing, or a row
\* of today, in the room's timezone, of an earlier run: not solved, or solved by a
\* submission the source no longer lists.
StoredBefore ==
    LET today == toISODate(now, "UTC")
    IN  {EmptyBag,
         SetToBag({MissedRow("u1", today)}),
         SetToBag({SolvedRow("u1", today, today * DayLen, "lru-cache", 0)})}

OverwriteInit ==
    /\ now \in {StartTime, StartTime + 1}
    /\ \E list \in SourceLists, other \in BOOLEAN :
           source = [u \in Usernames |->
                        IF u = "alice" THEN list
                        ELSE IF other THEN <<Submission(9, "two-sum", StartTime)>> ELSE <<>>]
    /\ users = {UserRow("u1", "alice", "Al", Some("r1")), UserRow("u2", "bob", "Bo", NULL)}
    /\ nextUserId = 3
    /\ rooms = InitialRooms
    /\ daily_results \in StoredBefore
    /\ submissions = EmptyBag
    /\ AtRest

OverwriteSpec == OverwriteInit /\ [][IdemNext]_vars

\* Row carries a most recent one of the submissions of list.
CarriesLatestOf(row, list) ==
    \E k \in 1..Len(list) :
        /\ \A j \in 1..Len(list) : list[j].timestamp <= list[k].timestamp
        /\ row.problem_title = Some(list[k].title)
        /\ row.problem_slug = Some(list[k].titleSlug)
        /\ row.submission_id = Some(list[k].id)

\* Claim C22: when an invocation whose calls all succeed answers, while the clock and
\* the source stood still, every user of it whose source lists a submission of today
\* has one row of today, solved, with the title, slug and id of the most recent
\* submission of today, whatever the row was before.
C22_SolvedTodayIsStored ==
    [][\A i \in 1..MaxSyncs :
          (sync[i].pc = "fanout" /\ sync'[i].pc = "returned") =>
              \A u \in sync[i].users :
                  LET tz == TimezoneOf(u)
                      today == getDateForTimezone(tz)
                      list == TodaySubmissions(source[u.leetcode_username], tz)
                  IN  Len(list) > 0 =>
                          \E row \in Rows(daily_results') :
                              /\ row.user_id = u.id /\ row.date = today
                              /\ daily_results'[row] = 1
                              /\ \A q \in Rows(daily_results') :
                                     (q.user_id = u.id /\ q.date = today) => q = row
                              /\ row.did_solve
                              /\ CarriesLatestOf(row, list)]_vars

\* The first user, whose source lists two submissions of today, of two problems, has
\* the row of today with the one listed first, and the bodies of the invocation are done.
C22_Witness ==
    \E i \in 1..MaxSyncs :
        LET list == TodaySubmissions(source["alice"], "UTC")
        IN  /\ sync[i].pc = "fanout"
            /\ \A uid \in Tasks(i) : sync[i].task[uid].pc = "done"
            /\ "u1" \in Tasks(i)
            /\ Len(list) = 2 /\ list[1].titleSlug # list[2].titleSlug
            /\ \E row \in Rows(daily_results) :
                   /\ row.user_id = "u1" /\ row.date = getDateForTimezone("UTC")
                   /\ row.did_solve /\ row.submission_id = Some(list[1].id)

-----------------------------------------------------------------------------
(* The order of the steps of one user's body *)

RowsOfId(table, uid) == RowsOf(table, [id |-> uid])

\* Claim C23: within an invocation a user's body evaluates, then writes the daily result,
\* then fetches and saves today's submissions.  A daily_results row of the user changes
\* only in the write step, which holds the evaluation's status; a submissions row of
\* the user changes only in the save step; the body reaches the fetch of the submissions
\* only from a write that stored the row (or from the guard that kept a solved row); and
\* a failing evaluation or a failing write ends the body with success = false, so that
\* no submissions row of the user is saved.
C23_EvaluateWriteThenSave ==
    [][\A i \in 1..MaxSyncs : \A uid \in Tasks(i) :
          LET t == sync[i].task[uid]
              t2 == IF sync'[i].pc = "fanout" THEN sync'[i].task[uid] ELSE t
          IN  /\ RowsOfId(daily_results', uid) # RowsOfId(daily_results, uid) =>
                     t.pc = "write" /\ t.status # NULL
              /\ RowsOfId(submissions', uid) # RowsOfId(submissions, uid) =>
                     t.pc = "save" /\ t.status # NULL
              /\ (t2.pc = "subs" /\ t.pc # "subs") =>
                     \/ /\ t.pc = "write"
                        /\ TodayRow(uid, t2.today[1], t.status[1]) \in Rows(daily_results')
                     \/ /\ t.pc = "guard"
                        /\ GuardKeeps(SelectDailyResult(daily_results, uid,
                                                        getDateForTimezone(t.timezone)))
              /\ (t2.pc = "save" /\ t.pc # "save") => t.pc = "subs"
              /\ (t.pc = "check" /\ t2.pc # "check" /\ t2.status = NULL) =>
                     /\ t2.pc = "done"
                     /\ ~t2.outcome[1].success
              /\ (t.pc = "write" /\ t2.pc # "write"
                     /\ RowsOfId(daily_results', uid) = RowsOfId(daily_results, uid)
                     /\ TodayRow(uid, getDateForTimezone(t.timezone), t.status[1])
                            \notin Rows(daily_results)) =>
                     /\ t2.pc = "done"
                     /\ ~t2.outcome[1].success
              /\ (t.pc = "done" /\ ~t.outcome[1].success) =>
                     /\ t2 = t
                     /\ RowsOfId(submissions', uid) = RowsOfId(submissions, uid)]_vars

\* One invocation has run both users' bodies: one ended in failure at its daily result
\* write although the source lists a submission of today, and no row of that user is
\* stored; the other ended in success with its daily result and its submission stored.
C23_Witness ==
    \E i \in 1..MaxSyncs : \E u, v \in sync[i].users :
        /\ sync[i].pc = "fanout"
        /\ \A w \in {u, v} : sync[i].task[w.id].pc = "done" /\ Len(SourceToday(w)) > 0
        /\ ~sync[i].task[u.id].outcome[1].success
        /\ sync[i].task[u.id].outcome[1].error = Some("store")
        /\ RowsOfId(daily_results, u.id) = EmptyBag
        /\ RowsOfId(submissions, u.id) = EmptyBag
        /\ sync[i].task[v.id].outcome[1].success
        /\ RowsOfId(daily_results, v.id) # EmptyBag
        /\ RowsOfId(submissions, v.id) # EmptyBag

-----------------------------------------------------------------------------
(* The bulk backfill over rows the sync wrote before *)

\* The user, who had at most MaxSubs submissions so far, solves n problems now: the
\* source lists them first, the newest first.
Solves(username, n) ==
    /\ Len(source[username]) <= MaxSubs
    /\ source' = [source EXCEPT ![username] =
                     [k \in 1..n |-> Submission(Len(@) + n - k + 1,
                                                IF k % 2 = 1 THEN "two-sum" ELSE "lru-cache",
                                                now)] \o @]
    /\ UNCHANGED <<now, storeVars, sync, reg, backfill, viewVars, roomVars, clockVars>>

\* Two tracked users without a room (their days are Pacific days, as the bulk backfill's
\* are); the first solved a problem a moment ago.
BulkInit ==
    /\ now = StartTime
    /\ source = [u \in Usernames |->
                    IF u = "alice" THEN <<Submission(1, "two-sum", StartTime)>> ELSE <<>>]
    /\ users = {UserRow("u1", "alice", "Al", NULL), UserRow("u2", "bob", "Bo", NULL)}
    /\ nextUserId = 3
    /\ rooms = InitialRooms
    /\ daily_results = EmptyBag
    /\ submissions = EmptyBag
    /\ AtRest

\* One sync invocation, whose calls all succeed; the bulk backfill's calls may fail.
BulkNext ==
    /\ \/ Tick
       \/ \E n \in {FetchLimit - 1, FetchLimit} : Solves("alice", n)
       \/ SyncWhen({TRUE})
       \/ Backfill
    /\ \A i \in 2..MaxSyncs : sync'[i].pc = "idle"

BulkSpec == BulkInit /\ [][BulkNext]_vars

\* Claim C24: no step of the bulk backfill turns a stored row with solved = true into a
\* row with solved = false, for any date of its window, the dates included whose
\* submissions the source's answer (its 20 most recent) holds no more.  The rows looked
\* at are those whose solve time falls on the row's own Pacific date, and the steps
\* those of a backfill whose list the source would answer again unchanged.
C24_BackfillKeepsSolved ==
    [][\A i \in 1..MaxBackfills :
          (/\ backfill'[i] # backfill[i]
           /\ backfill[i].pc = "day"
           /\ backfill[i].submissions =
                  RecentAcSubmissionList(backfill[i].user[1].leetcode_username)) =>
          \A row \in Rows(daily_results) :
              (row.did_solve /\ toISODate(row.solved_at[1], PACIFIC_TZ) = row.date) =>
                  \E kept \in Rows(daily_results') :
                      /\ kept.user_id = row.user_id
                      /\ kept.date = row.date
                      /\ kept.did_solve]_vars

-----------------------------------------------------------------------------
(* getStreaks while a sync writes *)

\* One sync invocation and calls of getStreaks, interleaved; every call succeeds.
PairNext ==
    /\ SyncWhen({TRUE}) \/ getStreaksWhen({FALSE})
    /\ \A i \in 2..MaxSyncs : sync'[i].pc = "idle"

PairSpec == BulkInit /\ [][PairNext]_vars

\* Claim C25: the pair getStreaks returns satisfies current <= longest, on a store at
\* rest and when the writes of a sync fall between its two reads.
C25_CurrentAtMostLongest ==
    streaks.pc = "returned" => streaks.current[1] <= streaks.longest[1]

-----------------------------------------------------------------------------
(* The two source fetches of one user's body *)

\* The users solve problems while one sync at a time runs; the date does not change and
\* every call succeeds.
FetchesNext ==
    /\ (\E username \in Accounts, slug \in Problems : Submit(username, slug))
           \/ SyncWhen({TRUE})
    /\ Cardinality(InFlight(sync')) <= 1

FetchesSpec == ZonedInit /\ [][FetchesNext]_vars

\* Claim C26: when a user's body ends with success = true and the submissions table
\* holds a row of (user, today), the daily_results row of (user, today) has
\* solved = true, although the status and the list of today's submissions come from two
\* fetches.
C26_SavedSubmissionMeansSolved ==
    [][\A i \in 1..MaxSyncs : \A uid \in Tasks(i) :
          LET t == sync[i].task[uid]
              today == getDateForTimezone(t.timezone)
          IN  (/\ sync'[i].pc = "fanout"
               /\ t.pc # "done"
               /\ sync'[i].task[uid].pc = "done"
               /\ sync'[i].task[uid].outcome[1].success
               /\ \E s \in Rows(submissions') : s.user_id = uid /\ s.date = today) =>
                  \E row \in Rows(daily_results') :
                      row.user_id = uid /\ row.date = today /\ row.did_solve]_vars

-----------------------------------------------------------------------------
(* The shape of the daily_results rows *)

\* Claim C27: in every reachable state a daily_results row with solved = false has null
\* solve time, problem title, problem slug and submission id, and a row with
\* solved = true has all four, whatever the sync, the registration backfill and the bulk
\* backfill wrote.
C27_DetailsExactlyWhenSolved ==
    \A row \in Rows(daily_results) :
        LET details == {row.solved_at, row.problem_title, row.problem_slug, row.submission_id}
        IN  IF row.did_solve THEN NULL \notin details ELSE details = {NULL}

\* A sync, a registration and a bulk backfill have answered, and the table holds a
\* solved row and a row that is not solved.
C27_Witness ==
    /\ \E i \in 1..MaxSyncs : sync[i].pc = "returned" /\ sync[i].response[1].status = 200
    /\ \E i \in 1..MaxRegs : reg[i].pc = "returned" /\ reg[i].response = Some(200)
    /\ \E i \in 1..MaxBackfills :
           backfill[i].pc = "returned" /\ backfill[i].response = Some(200)
    /\ \E row \in Rows(daily_results) : row.did_solve
    /\ \E row \in Rows(daily_results) : ~row.did_solve

-----------------------------------------------------------------------------
(* Removing a user that two rooms track *)

TwoRooms ==
    InitialRooms \cup {RoomRow("r2", generateRoomCode([i \in 1..CodeLen |-> 1]), NULL, Some("UTC"))}

\* Two rooms and no tracked user; alice has solved a problem a moment ago.
RemoveInit ==
    /\ now = StartTime
    /\ source = [u \in Usernames |->
                    IF u = "alice" THEN <<Submission(1, "two-sum", StartTime)>> ELSE <<>>]
    /\ users = {}
    /\ nextUserId = 1
    /\ rooms = TwoRooms
    /\ daily_results = EmptyBag
    /\ submissions = EmptyBag
    /\ AtRest

\* Registrations, one at a time, whose calls succeed, and removals.
RemoveNext ==
    /\ RegisterWhen({TRUE}) \/ Delete
    /\ Cardinality(InFlight(reg')) <= 1

RemoveSpec == RemoveInit /\ [][RemoveNext]_vars

\* Claim C29: removing a tracked user from one room leaves the tracked users of every
\* other room, and their daily results, as they are, also when another room tracks the
\* same username: the users of rooms that a removal takes away are of one room, and the
\* rows it takes away are those of the users it takes away.
C29_RemovalStaysInOneRoom ==
    [][/\ \A u, v \in users \ users' :
              (u.room_id # NULL /\ v.room_id # NULL) => u.room_id = v.room_id
       /\ \A row \in Rows(daily_results) :
              (\E u \in users' : u.id = row.user_id) => row \in Rows(daily_results')]_vars

-----------------------------------------------------------------------------
(* Registrations whose calls may fail *)

EnrolSpec == DuplicateInit /\ [][Register]_vars

TablesUnchanged ==
    /\ users' = users
    /\ daily_results' = daily_results
    /\ submissions' = submissions

\* Claim C30: a registration that answers with an error (400, 404, 409, 500) has left
\* users, daily_results and submissions as they were, in the answering step and in every
\* step before it; once the user is inserted, no later step of the request takes the
\* user away, whatever fails in the backfill, and the request answers 200.
C30_ErrorStoresNothingFailedBackfillKeepsUser ==
    [][\A i \in 1..MaxRegs :
          reg'[i] # reg[i] =>
              LET r == reg[i]
                  answered == reg'[i].pc = "returned"
              IN  /\ (answered /\ reg'[i].response # Some(200)) =>
                         r.userId = NULL /\ TablesUnchanged
                  /\ (r.userId = NULL /\ r.pc # "insert") => TablesUnchanged
                  /\ r.userId # NULL =>
                         /\ \E u \in users' : u.id = r.userId[1]
                         /\ answered => reg'[i].response = Some(200)]_vars

\* One registration answered 200 and another 409 for the same username, whose source
\* lists a submission of today; no row of a user of that name is stored: every write
\* of the backfill failed, and the user is stored all the same.
C30_Witness ==
    /\ \E i \in 1..MaxRegs : reg[i].pc = "returned" /\ reg[i].response = Some(200)
    /\ \E i \in 1..MaxRegs : reg[i].pc = "returned" /\ reg[i].response = Some(409)
    /\ Len(source["alice"]) > 0
    /\ Cardinality({u \in users : u.leetcode_username = "alice"}) = 1
    /\ UserRow("u1", "alice", "Al", Some("r1")) \notin users
    /\ \A u \in users : u.leetcode_username = "alice" =>
           /\ RowsOfId(daily_results, u.id) = EmptyBag
           /\ RowsOfId(submissions, u.id) = EmptyBag

-----------------------------------------------------------------------------
(* upsertTodayResult called again and again *)

\* The calls come one after the other, on a store without rows, within one day; every
\* upsert succeeds, so that every call returns without an error; the guard's read may
\* fail.
CallsSpec == BulkInit /\ [][upsertTodayResultWhen(BOOLEAN, {TRUE})]_vars

\* The didSolve arguments of the calls made for user userId so far.
SolvedArguments(userId) ==
    {upsert.calls[k].didSolve : k \in {j \in 1..Len(upsert.calls) :
                                          upsert.calls[j].userId = userId}}

\* Claim C28: after any sequence of calls of upsertTodayResult for one user and date, made
\* one after the other, the row's solved flag is the logical OR of the didSolve
\* arguments of the calls, in whatever order they came.
C28_FlagIsOrOfArguments ==
    upsert.pc = "idle" =>
        \A u \in users :
            SolvedArguments(u.id) # {} =>
                /\ Cardinality({row \in Rows(daily_results) :
                                    row.user_id = u.id
                                    /\ row.date = getDateForTimezone(DEFAULT_TIMEZONE)}) = 1
                /\ \A row \in Rows(daily_results) :
                       row.user_id = u.id => row.did_solve = (TRUE \in SolvedArguments(u.id))

====
